---- MODULE Spec2Model ----
(***************************************************************************)
(* Verification model of codex-openai-wrapper: the SSE translator          *)
(* (src/src/sse.ts), usage normalisation (src/src/usage.ts), the           *)
(* non-streaming aggregation of /v1/chat/completions                       *)
(* (src/unnamed/part_007, routes/openai.ts), applyReasoningToMessage       *)
(* (src/src/reasoning.ts) and the session fingerprint cache                *)
(* (src/src/types.ts, session.ts).                                         *)
(***************************************************************************)
EXTENDS Integers, Sequences, FiniteSets, TLC

(***************************************************************************)
(* Bounds of the model.                                                    *)
(***************************************************************************)
\* upstream lines delivered to one sseTranslateChat stream
MaxLines == 3
\* upstream lines folded by one non-streaming aggregation
MaxAggLines == 3
\* response.output_item.done lines of a stream of tool calls
MaxItemLines == 1
\* MAX_ENTRIES (10_000 in src/src/types.ts:307) scaled down to a size TLC can fill
MAX_ENTRIES == 2
\* the longest timeout of an upstream fetch, in ticks of the timer
MaxTimeoutMs == 3
\* the messages of a chat request
MaxMessages == 3
\* the days that pass in a run of calls
MaxNow == 60

(***************************************************************************)
(* JavaScript values.  Every value is a record with the same three fields  *)
(* so that values of different JS types can be compared: t is the typeof   *)
(* tag, n the number, s the string as a sequence of characters.            *)
(***************************************************************************)
Undef == [t |-> "undefined", n |-> 0, s |-> <<>>]
Null == [t |-> "null", n |-> 0, s |-> <<>>]
Num(k) == [t |-> "number", n |-> k, s |-> <<>>]
Str(cs) == [t |-> "string", n |-> 0, s |-> cs]

IsNum(v) == v.t = "number"
IsStr(v) == v.t = "string"
IsNullish(v) == v.t \in {"undefined", "null"}
\* ToBoolean(v) = false
Falsy(v) ==
  \/ IsNullish(v)
  \/ (IsNum(v) /\ v.n = 0)
  \/ (IsStr(v) /\ v.s = <<>>)
\* a || b
Or(a, b) == IF Falsy(a) THEN b ELSE a
\* a ?? b
Coalesce(a, b) == IF IsNullish(a) THEN b ELSE a

Digit(d) == <<"0", "1", "2", "3", "4", "5", "6", "7", "8", "9">>[d + 1]
RECURSIVE Dec(_)
\* Number.prototype.toString of a non-negative integer
Dec(k) == IF k < 10 THEN <<Digit(k)>> ELSE Dec(k \div 10) \o <<Digit(k % 10)>>
\* ToString of a primitive
ToStr(v) ==
  CASE IsStr(v) -> v.s
    [] IsNum(v) -> Dec(v.n)
    [] v.t = "null" -> <<"n", "u", "l", "l">>
    [] OTHER -> <<"u", "n", "d", "e", "f", "i", "n", "e", "d">>
\* a + b : numeric addition of two numbers, string concatenation as soon as
\* one operand is a string
Plus(a, b) ==
  IF IsNum(a) /\ IsNum(b) THEN Num(a.n + b.n)
  ELSE Str(ToStr(a) \o ToStr(b))

Whitespace == {" ", "\t", "\n"}
RECURSIVE TrimStart(_)
TrimStart(cs) ==
  IF cs # <<>> /\ Head(cs) \in Whitespace THEN TrimStart(Tail(cs)) ELSE cs
RECURSIVE TrimEnd(_)
TrimEnd(cs) ==
  IF cs # <<>> /\ cs[Len(cs)] \in Whitespace
  THEN TrimEnd(SubSeq(cs, 1, Len(cs) - 1))
  ELSE cs
\* String.prototype.trim
Trim(cs) == TrimEnd(TrimStart(cs))

(***************************************************************************)
(* Usage payloads.  A payload object carries the seven fields the code     *)
(* reads; an absent field is Undef.                                        *)
(***************************************************************************)
UsageObj(p, i, c, o, tot, cc, cr) ==
  [t |-> "object", n |-> 0, s |-> <<>>,
   prompt_tokens |-> p, input_tokens |-> i,
   completion_tokens |-> c, output_tokens |-> o,
   total_tokens |-> tot,
   cache_creation_input_tokens |-> cc, cache_read_input_tokens |-> cr]
IsObject(v) == v.t = "object"

\* the usage object attached to a chunk or a completion; an omitted key is
\* Undef, and NoUsage is the absence of the object
UsageOut(p, c, tot, cc, cr) ==
  [t |-> "object", prompt_tokens |-> p, completion_tokens |-> c, total_tokens |-> tot,
   cache_creation_input_tokens |-> cc, cache_read_input_tokens |-> cr]
NoUsage == Null

\* usage.ts numberOrZero
numberOrZero(primary, fallback) ==
  IF IsNum(primary) THEN primary
  ELSE IF IsNum(fallback) THEN fallback
  ELSE Num(0)

\* usage.ts normalizeUsage; NoUsage stands for the null result
normalizeUsage(raw) ==
  IF Falsy(raw) \/ ~IsObject(raw) THEN NoUsage
  ELSE
    LET prompt_tokens == numberOrZero(raw.prompt_tokens, raw.input_tokens)
        completion_tokens == numberOrZero(raw.completion_tokens, raw.output_tokens)
        total_tokens ==
          IF IsNum(raw.total_tokens) THEN raw.total_tokens
          ELSE Plus(prompt_tokens, completion_tokens)
        cc == IF IsNum(raw.cache_creation_input_tokens)
              THEN raw.cache_creation_input_tokens ELSE Undef
        cr == IF IsNum(raw.cache_read_input_tokens)
              THEN raw.cache_read_input_tokens ELSE Undef
    IN UsageOut(prompt_tokens, completion_tokens, total_tokens, cc, cr)

\* sse.ts 382-402: the usage object of the usage chunk of sseTranslateChat;
\* NoUsage when no chunk is built
sseUsage(rawUsage) ==
  IF Falsy(rawUsage) \/ ~IsObject(rawUsage) THEN NoUsage
  ELSE
    LET prompt_tokens == Coalesce(rawUsage.prompt_tokens, Coalesce(rawUsage.input_tokens, Num(0)))
        completion_tokens ==
          Coalesce(rawUsage.completion_tokens, Coalesce(rawUsage.output_tokens, Num(0)))
        total_tokens == Coalesce(rawUsage.total_tokens, Plus(prompt_tokens, completion_tokens))
        cc == IF IsNum(rawUsage.cache_creation_input_tokens)
              THEN rawUsage.cache_creation_input_tokens ELSE Undef
        cr == IF IsNum(rawUsage.cache_read_input_tokens)
              THEN rawUsage.cache_read_input_tokens ELSE Undef
    IN UsageOut(prompt_tokens, completion_tokens, total_tokens, cc, cr)

(***************************************************************************)
(* Upstream SSE lines and events (sse.ts SseEvent).                        *)
(***************************************************************************)
\* item of a response.output_item.done event
Item(ty, callId, id, name, args) ==
  [t |-> "object", id |-> id, name |-> name, type |-> ty, call_id |-> callId,
   arguments |-> args]
\* evt.item absent
NoItem == Undef

\* a parsed event: evt.type, evt.delta, evt.item, evt.response.usage, evt.usage
Evt(ty, delta, item, responseUsage, usage) ==
  [type |-> ty, delta |-> delta, item |-> item,
   usage |-> usage, response_usage |-> responseUsage]
NoEvt == Evt("", Undef, NoItem, Undef, Undef)

\* one upstream line, without its "\n":
\*   "data"  `data: <json object>`      "done"  `data: [DONE]`
\*   "blank" a line not starting with `data: ` (the empty line between frames)
\*   "bad"   `data: <text JSON.parse rejects>`
\*   "null"  `data: null`
Line(kind, evt) == [kind |-> kind, evt |-> evt]
DataLine(evt) == Line("data", evt)
DoneLine == Line("done", NoEvt)
BlankLine == Line("blank", NoEvt)
BadLine == Line("bad", NoEvt)
NullLine == Line("null", NoEvt)

TextDelta == "response.output_text.delta"
SummaryTextDelta == "response.reasoning_summary_text.delta"
ReasoningTextDelta == "response.reasoning_text.delta"
SummaryDelta == "response.reasoning_summary.delta"
ReasoningDelta == "response.reasoning.delta"
PartAdded == "response.reasoning_summary_part.added"
OutputItemDone == "response.output_item.done"
OutputTextDone == "response.output_text.done"
ContentPartDone == "response.content_part.done"
Failed == "response.failed"
Completed == "response.completed"

\* sse.ts 192-195
ReasoningKinds == {SummaryTextDelta, ReasoningTextDelta, SummaryDelta, ReasoningDelta}
\* sse.ts 219, 255, 302: the kinds that take a paragraph separator
SummaryKinds == {SummaryTextDelta, SummaryDelta}
\* kind.endsWith(".done")
EndsWithDone(kind) == kind \in {OutputItemDone, OutputTextDone, ContentPartDone}

(***************************************************************************)
(* Output frames.  A chunk frame keeps choices[0].delta (its one key and   *)
(* that key's text), choices[0].finish_reason, the tool call and the usage *)
(* object; id, created and model are the same on every chunk and left out. *)
(***************************************************************************)
NoTool == Undef
Frame(f, delta, text, finish, tool, usage) ==
  [delta |-> delta, usage |-> usage, f |-> f, text |-> text, finish |-> finish,
   tool |-> tool]
Chunk(delta, text) == Frame("chunk", delta, text, "null", NoTool, NoUsage)
\* `data: [DONE]\n\n`
DoneFrame == Frame("done", "", Undef, "", NoTool, NoUsage)
\* `data: {"error":{"message":...}}\n\n`
ErrorFrame == Frame("error", "", Undef, "", NoTool, NoUsage)
RoleChunk == Chunk("role", Str(<<"assistant">>))
ThinkOpenTag == Str(<<"<think>">>)
ThinkCloseTag == Str(<<"</think>">>)
Newline == Str(<<"\n">>)
ToolChunk(callId, name, args) ==
  Frame("chunk", "tool_calls", Undef, "null",
        [t |-> "object", id |-> callId, name |-> name, arguments |-> args], NoUsage)
FinishChunk(reason) == Frame("chunk", "empty", Undef, reason, NoTool, NoUsage)
UsageChunk(u) == Frame("chunk", "empty", Undef, "null", NoTool, u)

(***************************************************************************)
(* normalizeCompatMode (imported by sse.ts from ./reasoning; that version  *)
(* of reasoning.ts is not among the sources, its tests are).               *)
(***************************************************************************)
Modes == {"tagged", "openai", "o3", "r1", "hidden"}
\* raw mode strings, with (raw || "").trim().toLowerCase() of each
RawModes ==
  {<<"tagged", "tagged">>, <<"openai", "openai">>, <<"o3", "o3">>, <<"r1", "r1">>,
   <<"hidden", "hidden">>, <<"  TAGGED  ", "tagged">>, <<"OpenAI", "openai">>,
   <<"hide", "hide">>, <<"unknown", "unknown">>, <<"", "">>, <<"  ", "">>}
normalizeCompatMode_hide(raw) ==
  IF raw[2] \in Modes THEN raw[2] ELSE IF raw[2] = "hide" THEN "hidden" ELSE "tagged"
normalizeCompatMode(raw) == IF raw[2] \in Modes THEN raw[2] ELSE "tagged"

(***************************************************************************)
(* sseTranslateChat: the translation state and the handling of one line.   *)
(* A translator state is a record of the closure variables of              *)
(* sseTranslateChat together with the frames enqueued so far (out), the    *)
(* `break` of the line loop (brk) and an exception escaping it (err).      *)
(***************************************************************************)
Emit(s, frame) == [s EXCEPT !.out = Append(@, frame)]

\* the role chunk sent without a look at sentRole
ensureRole_always(s) == [Emit(s, RoleChunk) EXCEPT !.sentRole = TRUE]
\* sse.ts 64-75
ensureRole(s) ==
  IF s.sentRole THEN s ELSE [Emit(s, RoleChunk) EXCEPT !.sentRole = TRUE]

\* sse.ts 121-132 and 368-379: close an open think block in tagged mode
CloseThink(s) ==
  IF s.reasoningCompat = "tagged" /\ s.thinkOpen /\ ~s.thinkClosed
  THEN [Emit(s, Chunk("content", ThinkCloseTag)) EXCEPT !.thinkOpen = FALSE, !.thinkClosed = TRUE]
  ELSE s

\* sse.ts 118-140
OnTextDelta(s, evt) ==
  LET delta == Or(evt.delta, Str(<<>>))
  IN Emit(CloseThink(ensureRole(s)), Chunk("content", delta))

\* the tool call announced without the chunk that ends the turn
OnOutputItemDone_noFinish(s, evt) ==
  LET r == ensureRole(s)
      item == evt.item
      isCall == ~Falsy(item) /\ item.type = "function_call"
      callId == IF isCall THEN Or(item.call_id, Or(item.id, Str(<<>>))) ELSE Undef
      name == IF isCall THEN Or(item.name, Str(<<>>)) ELSE Undef
      args == IF isCall THEN Or(item.arguments, Str(<<>>)) ELSE Undef
  IN IF isCall /\ IsStr(callId) /\ IsStr(name) /\ IsStr(args)
     THEN Emit(r, ToolChunk(callId, name, args))
     ELSE r
\* sse.ts 141-182
OnOutputItemDone(s, evt) ==
  LET r == ensureRole(s)
      item == evt.item
      isCall == ~Falsy(item) /\ item.type = "function_call"
      callId == IF isCall THEN Or(item.call_id, Or(item.id, Str(<<>>))) ELSE Undef
      name == IF isCall THEN Or(item.name, Str(<<>>)) ELSE Undef
      args == IF isCall THEN Or(item.arguments, Str(<<>>)) ELSE Undef
  IN IF isCall /\ IsStr(callId) /\ IsStr(name) /\ IsStr(args)
     THEN Emit(Emit(r, ToolChunk(callId, name, args)), FinishChunk("tool_calls"))
     ELSE r

\* the separator asked for by the first part as well
OnPartAdded_leading(s) ==
  IF s.reasoningCompat \in {"tagged", "o3", "openai"}
  THEN [s EXCEPT !.sawAnySummary = TRUE, !.pendingSummaryParagraph = TRUE]
  ELSE s
\* sse.ts 183-190
OnPartAdded(s) ==
  IF s.reasoningCompat \in {"tagged", "o3", "openai"}
  THEN IF s.sawAnySummary
       THEN [s EXCEPT !.pendingSummaryParagraph = TRUE]
       ELSE [s EXCEPT !.sawAnySummary = TRUE]
  ELSE s

\* sse.ts 218-237, 254-273, 301-314: the "\n" chunk before a summary delta
Separator(s, kind, delta) ==
  IF kind \in SummaryKinds /\ s.pendingSummaryParagraph
  THEN [Emit(s, Chunk(delta, Newline)) EXCEPT !.pendingSummaryParagraph = FALSE]
  ELSE s

\* sse.ts 288-323
OnReasoningTagged(s, kind, deltaTxt) ==
  LET o == IF ~s.thinkOpen /\ ~s.thinkClosed
           THEN [Emit(s, Chunk("content", ThinkOpenTag)) EXCEPT !.thinkOpen = TRUE]
           ELSE s
  IN IF o.thinkOpen /\ ~o.thinkClosed
     THEN Emit(Separator(o, kind, "content"), Chunk("content", deltaTxt))
     ELSE o

\* sse.ts 191-351
OnReasoningDelta(s, evt) ==
  LET r == ensureRole(s)
      kind == evt.type
      deltaTxt == Or(evt.delta, Str(<<>>))
  IN CASE r.reasoningCompat = "hidden" -> r
       [] r.reasoningCompat = "r1" -> Emit(r, Chunk("reasoning_content", deltaTxt))
       [] r.reasoningCompat = "o3" ->
            Emit(Separator(r, kind, "reasoning"), Chunk("reasoning", deltaTxt))
       [] r.reasoningCompat = "openai" ->
            Emit(Separator(r, kind, "reasoning_content"), Chunk("reasoning_content", deltaTxt))
       [] r.reasoningCompat = "tagged" -> OnReasoningTagged(r, kind, deltaTxt)
       [] OTHER ->
            IF kind = SummaryTextDelta
            THEN Emit(r, Chunk("reasoning_summary", deltaTxt))
            ELSE Emit(r, Chunk("reasoning", deltaTxt))

\* sse.ts 382: (evt.response && evt.response.usage) || evt.usage
RawUsageOf(evt) == Or(evt.response_usage, evt.usage)

\* [DONE] sent ahead of the usage chunk
OnCompleted_doneFirst(s, evt) ==
  LET c == Emit(CloseThink(s), DoneFrame)
      u == sseUsage(RawUsageOf(evt))
      w == IF u # NoUsage THEN Emit(c, UsageChunk(u)) ELSE c
  IN [w EXCEPT !.brk = TRUE]
\* sse.ts 367-408
OnCompleted(s, evt) ==
  LET c == CloseThink(s)
      u == sseUsage(RawUsageOf(evt))
      w == IF u # NoUsage THEN Emit(c, UsageChunk(u)) ELSE c
  IN [Emit(w, DoneFrame) EXCEPT !.brk = TRUE]

\* sse.ts 113-409: the if/else chain on evt.type
OnEvent(s, evt) ==
  LET kind == evt.type
  IN CASE kind = TextDelta -> OnTextDelta(s, evt)
       [] kind = OutputItemDone -> OnOutputItemDone(s, evt)
       [] kind = PartAdded -> OnPartAdded(s)
       [] kind \in ReasoningKinds -> OnReasoningDelta(s, evt)
       [] EndsWithDone(kind) -> s
       [] kind = OutputTextDone -> Emit(s, FinishChunk("stop"))
       [] kind = Failed -> Emit(s, ErrorFrame)
       [] kind = Completed -> OnCompleted(s, evt)
       [] OTHER -> s

\* sse.ts 89-111: one iteration of `for (const line of lines)`
HandleLine(s, line) ==
  CASE line.kind = "blank" -> s
    [] line.kind = "done" -> [Emit(s, DoneFrame) EXCEPT !.brk = TRUE]
    [] line.kind = "bad" -> s
    [] line.kind = "null" -> [s EXCEPT !.err = TRUE]
    [] OTHER -> OnEvent(s, line.evt)

RECURSIVE HandleLines(_, _)
\* sse.ts 89-410: the line loop of one read; `break` and an exception end it
HandleLines(s, lines) ==
  IF lines = <<>> \/ s.brk \/ s.err THEN s
  ELSE HandleLines(HandleLine(s, Head(lines)), Tail(lines))

(***************************************************************************)
(* The upstream response body.  Its bytes are units: a line other than the *)
(* empty one is two pieces of text, "h" and "t", so that a read can end    *)
(* inside a line, and every line ends with the unit "nl" ("\n").           *)
(***************************************************************************)
Unit(u, line) == [u |-> u, line |-> line]
NL == Unit("nl", BlankLine)
Units(line) ==
  IF line = BlankLine THEN <<NL>> ELSE <<Unit("h", line), Unit("t", line), NL>>

RECURSIVE SplitFrom(_, _, _)
SplitFrom(units, cur, acc) ==
  IF units = <<>> THEN Append(acc, cur)
  ELSE IF Head(units) = NL THEN SplitFrom(Tail(units), <<>>, Append(acc, cur))
  ELSE SplitFrom(Tail(units), Append(cur, Head(units)), acc)
\* buffer.split("\n")
Split(units) == SplitFrom(units, <<>>, <<>>)
\* the line a complete segment spells
LineOf(seg) == IF seg = <<>> THEN BlankLine ELSE seg[1].line
AllButLast(q) == SubSeq(q, 1, Len(q) - 1)
Last(q) == q[Len(q)]
\* the complete lines of buffer + chunk, and the partial line kept back
LinesOf(units) ==
  LET segs == Split(units) IN [i \in 1..(Len(segs) - 1) |-> LineOf(segs[i])]
Remainder(units) == Last(Split(units))

\* the lines an upstream may send to the chat routes
UsageU1 == UsageObj(Undef, Num(3), Undef, Num(2), Undef, Undef, Undef)
TxtA == Str(<<"A">>)
TxtR == Str(<<"R">>)
TxtF == Str(<<"F">>)
CallItem == Item("function_call", Str(<<"c1">>), Undef, Str(<<"f">>), Str(<<"{}">>))
EventSet ==
  {Evt(TextDelta, TxtA, NoItem, Undef, Undef),
   Evt(SummaryTextDelta, TxtR, NoItem, Undef, Undef),
   Evt(ReasoningTextDelta, TxtF, NoItem, Undef, Undef),
   Evt(PartAdded, Undef, NoItem, Undef, Undef),
   Evt(OutputItemDone, Undef, CallItem, Undef, Undef),
   Evt(OutputTextDone, Undef, NoItem, Undef, Undef),
   Evt(Failed, Undef, NoItem, Undef, Undef),
   Evt(Completed, Undef, NoItem, Undef, Undef),
   Evt(Completed, Undef, NoItem, UsageU1, Undef)}
LineSet == {DataLine(e) : e \in EventSet} \cup {DoneLine, BlankLine, BadLine, NullLine}

VARIABLES
  \* the upstream body: the units of the line being sent that are still to
  \* come, and the complete lines sent so far
  upPending, delivered,
  \* sseTranslateChat (sse.ts 33-62)
  reasoningCompat, thinkOpen, thinkClosed, sawAnySummary, pendingSummaryParagraph,
  sentRole, buffer,
  \* the frames enqueued on the controller, and the state of the output
  \* stream: "reading", "closed" (controller.close) or "errored" (controller.error)
  out, status,
  \* openai.post("/v1/chat/completions"), non-streaming branch (part_007 150-164)
  aggCompat, fullText, reasoningSummaryText, reasoningFullText, toolCalls, finalUsage,
  errorMessage, completedEarly, aggBuffer, sawDataPrefix,
  \* "reading" until the route has built its response, then "responded"
  aggStatus, response,
  \* one usage payload, and what the two routes report for it
  usageIn, usageStream, usageNonStream, usagePc,
  \* the session cache (types.ts 305-306), the latest ensureSessionId call,
  \* the key of the latest cache hit and the keys of the cache in the order
  \* of their insertion
  FP_TO_UUID, FP_ORDER, lastCall, recentHit, insertion,
  \* one startUpstreamRequest call (upstream.ts 234-837): its environment and
  \* what the network does (request), and what it returned (returned)
  request, returned,
  \* one request served by the app (index.ts): the Hono context of the
  \* request (its req and env) and the response
  httpRequest, httpResponse,
  \* one call of normalizeCompatMode and of applyReasoningToMessage on the
  \* same mode: the arguments and the results
  applied,
  \* the cancel of the stream of sseTranslateChat (sse.ts 37, 428-436): the
  \* flag, the calls made on the upstream by the handler, and how the read
  \* that was pending at the cancel ended ("none" before it ends)
  canceled, upstreamCalls, pendingRead,
  \* the signal of the upstream fetch of one startUpstreamRequest call
  \* (upstream.ts 650-675): the caller's signal (a), the timeout's (b), the
  \* timer, the signal given to fetch and the fetch
  fetchSignal,
  \* the KV namespace of the worker (auth_kv.ts 120-124, 168-177), the keys
  \* auth_tokens and auth_last_refresh, and Date.now() in days
  KV, now

upVars == <<upPending, delivered>>
sseVars ==
  <<reasoningCompat, thinkOpen, thinkClosed, sawAnySummary, pendingSummaryParagraph,
    sentRole, buffer, out, status>>
aggVars ==
  <<aggCompat, fullText, reasoningSummaryText, reasoningFullText, toolCalls, finalUsage,
    errorMessage, completedEarly, aggBuffer, sawDataPrefix, aggStatus, response>>
usageVars == <<usageIn, usageStream, usageNonStream, usagePc>>
cacheVars == <<FP_TO_UUID, FP_ORDER, lastCall, recentHit, insertion>>
callVars ==
  <<request, returned, httpRequest, httpResponse, applied, canceled, upstreamCalls, pendingRead,
    fetchSignal>>
kvVars == <<KV, now>>
vars == <<upVars, sseVars, aggVars, usageVars, cacheVars, callVars, kvVars>>

\* the translator state the line handlers work on
SseState ==
  [out |-> out, sentRole |-> sentRole, reasoningCompat |-> reasoningCompat,
   thinkOpen |-> thinkOpen, thinkClosed |-> thinkClosed,
   sawAnySummary |-> sawAnySummary,
   pendingSummaryParagraph |-> pendingSummaryParagraph, brk |-> FALSE, err |-> FALSE]

UpInit ==
  /\ upPending = <<>>
  /\ delivered = <<>>

\* sse.ts 33-62
SseInit ==
  /\ \E raw \in RawModes : reasoningCompat = normalizeCompatMode(raw)
  /\ thinkOpen = FALSE
  /\ thinkClosed = FALSE
  /\ sawAnySummary = FALSE
  /\ pendingSummaryParagraph = FALSE
  /\ sentRole = FALSE
  /\ buffer = <<>>
  /\ out = <<>>
  /\ status = "reading"

\* the translator not in use
SseIdle ==
  /\ reasoningCompat = "openai"
  /\ thinkOpen = FALSE
  /\ thinkClosed = FALSE
  /\ sawAnySummary = FALSE
  /\ pendingSummaryParagraph = FALSE
  /\ sentRole = FALSE
  /\ buffer = <<>>
  /\ out = <<>>
  /\ status = "closed"

\* the lines sent so far, complete or not
Sent == Len(delivered) + (IF upPending = <<>> THEN 0 ELSE 1)

\* The upstream sends the next n units: the rest of the line under way and,
\* with more = TRUE, the beginning or the whole of one further line.
UpstreamSends(buf, more, line, n, bound) ==
  LET avail == IF more THEN upPending \o Units(line) ELSE upPending
  IN /\ more => Sent < bound
     /\ n \in 1..Len(avail)
     /\ more => n > Len(upPending)
     /\ upPending' = SubSeq(avail, n + 1, Len(avail))
     /\ delivered' = delivered \o LinesOf(buf \o SubSeq(avail, 1, n))

\* sse.ts 78-411: one `await reader.read()` that yields a value, and the
\* line loop over it; an exception goes to the catch (controller.error) and
\* the finally block
ReadUpTo(more, line, n, bound) ==
  /\ status = "reading"
  /\ UpstreamSends(buffer, more, line, n, bound)
  /\ \E units \in {buffer \o SubSeq(IF more THEN upPending \o Units(line) ELSE upPending, 1, n)} :
       \E s \in {HandleLines(SseState, LinesOf(units))} :
         /\ buffer' = Remainder(units)
         /\ out' = s.out
         /\ thinkOpen' = s.thinkOpen
         /\ thinkClosed' = s.thinkClosed
         /\ sawAnySummary' = s.sawAnySummary
         /\ pendingSummaryParagraph' = s.pendingSummaryParagraph
         /\ sentRole' = s.sentRole
         /\ status' = IF s.err THEN "errored" ELSE "reading"
  /\ UNCHANGED <<reasoningCompat, aggVars, usageVars, cacheVars, callVars, kvVars>>

\* sse.ts 79-82, 419-426: the read reports done; the loop ends, the finally
\* block closes the output stream and the partial line in buffer is dropped
\* with the closure
UpstreamEnd ==
  /\ status = "reading"
  /\ status' = "closed"
  /\ buffer' = <<>>
  /\ upPending' = <<>>
  /\ UNCHANGED <<delivered, reasoningCompat, thinkOpen, thinkClosed, sawAnySummary,
                 pendingSummaryParagraph, sentRole, out, aggVars, usageVars, cacheVars, callVars, kvVars>>

\* the non-streaming branch not in use
AggIdle ==
  /\ aggCompat = <<"openai", "openai">>
  /\ fullText = Str(<<>>)
  /\ reasoningSummaryText = Str(<<>>)
  /\ reasoningFullText = Str(<<>>)
  /\ toolCalls = <<>>
  /\ finalUsage = NoUsage
  /\ errorMessage = Null
  /\ completedEarly = FALSE
  /\ aggBuffer = <<>>
  /\ sawDataPrefix = FALSE
  /\ aggStatus = "responded"
  /\ response = Null

UsageIdle ==
  /\ usageIn = Undef
  /\ usageStream = NoUsage
  /\ usageNonStream = NoUsage
  /\ usagePc = "done"

\* an ensureSessionId call: its arguments and result, whether the key was
\* found (hit), whether the call before it had the same instructions and
\* first user message, both without a client id (again), and the key it
\* evicted, if any
CallRecord(made, instructions, inputItems, clientSupplied, ret, hit, again, evicted) ==
  [made |-> made, instructions |-> instructions, inputItems |-> inputItems,
   clientSupplied |-> clientSupplied, ret |-> ret, hit |-> hit, again |-> again,
   evicted |-> evicted]
NoCall == CallRecord(FALSE, Undef, <<>>, Undef, Undef, FALSE, FALSE, <<>>)
\* types.ts 305-306: the module is loaded with an empty cache
CacheInit ==
  /\ FP_TO_UUID = [k \in {} |-> Undef]
  /\ FP_ORDER = <<>>
  /\ lastCall = NoCall
  /\ recentHit = <<>>
  /\ insertion = <<>>

(***************************************************************************)
(* startUpstreamRequest (src/src/upstream.ts 234-837).  The environment   *)
(* of a call: ollamaPath (is the call an Ollama one), UPSTREAM_AUTH_MODE,  *)
(* UPSTREAM_API_KEY, and OPENAI_CODEX_AUTH as the set of what the variable  *)
(* holds: {} when unset, {"invalid"} when it is not JSON, else "json"      *)
(* with "tokens" (tokens.access_token, account_id and refresh_token),      *)
(* "stale" (last_refresh older than 28 days) and "key" (a non-blank        *)
(* OPENAI_API_KEY entry).  The network of a call: the outcomes of the      *)
(* first fetch and of the retry, each a Response or a thrown Error, and    *)
(* whether the token endpoint answers a refresh with new tokens.           *)
(***************************************************************************)
\* a Response: its status and the error.message of its JSON body
Resp_noMessage(code, message) ==
  [t |-> "Response", status |-> code, message |-> Str(<<"Upstream error">>)]
Resp(code, message) == [t |-> "Response", status |-> code, message |-> message]
\* what one call returns, with the fetches it made on the upstream URL (their
\* outcomes, in order) and the token requests it made (what caused each)
Returned_bothSet(resp, error, posts, refreshes) ==
  [response |-> IF posts # <<>> /\ posts[Len(posts)].t = "Response"
                THEN posts[Len(posts)] ELSE resp,
   error |-> error, posts |-> posts, refreshes |-> refreshes]
Returned(resp, error, posts, refreshes) ==
  [response |-> resp, error |-> error, posts |-> posts, refreshes |-> refreshes]

\* auth_kv.ts 138-202 without KV storage: are there credentials, and the
\* token requests made.  A failed refresh falls back on the current tokens.
getRefreshedAuth(env) ==
  IF "tokens" \notin env.OPENAI_CODEX_AUTH
  THEN [refreshes |-> <<>>, credentials |-> FALSE]
  ELSE [refreshes |-> IF "stale" \in env.OPENAI_CODEX_AUTH THEN <<"last_refresh">> ELSE <<>>,
        credentials |-> TRUE]

\* upstream.ts 693-698: is a non-2xx response answered with a token refresh
canRefresh_anyStatus(env, upstreamResponse) ==
  /\ env.OPENAI_CODEX_AUTH # {}
  /\ Or(env.UPSTREAM_AUTH_MODE, Str(<<"chatgpt_token">>)) = Str(<<"chatgpt_token">>)
canRefresh(env, upstreamResponse) ==
  /\ upstreamResponse.status = 401
  /\ env.OPENAI_CODEX_AUTH # {}
  /\ Or(env.UPSTREAM_AUTH_MODE, Str(<<"chatgpt_token">>)) = Str(<<"chatgpt_token">>)

startUpstreamRequest(env, net) ==
  LET auth == getRefreshedAuth(env)
      isOllamaRequest == env.ollamaPath
      authMode == Or(env.UPSTREAM_AUTH_MODE, Str(<<"chatgpt_token">>))
      Refused(code, message) == Returned(Null, Resp(code, Str(<<message>>)), <<>>, auth.refreshes)
      \* 809-836: the catch around both fetches
      Caught(e, posts, refreshes) ==
        Returned(Null, Resp(502, Plus(Str(<<"Upstream ChatGPT request failed: ">>), e.message)),
                 posts, refreshes)
      \* 699, auth_kv.ts 66-136: refreshAccessToken asks the token endpoint
      \* when there is a refresh token, and returns null when it does not or
      \* when the endpoint refuses
      asked == "tokens" \in env.OPENAI_CODEX_AUTH
      refreshes == auth.refreshes \o (IF asked THEN <<"401">> ELSE <<>>)
      refreshedTokens == asked /\ net.refresh
      \* 795-805
      Upstream(posts, rs) ==
        Returned(Null, Resp(net.first.status, Or(net.first.message, Str(<<"Upstream error">>))),
                 posts, rs)
  IN CASE ~isOllamaRequest /\ authMode = Str(<<"chatgpt_token">>) /\ ~auth.credentials ->
            Refused(401, "Missing ChatGPT credentials. Run 'codex login' first")
       [] ~isOllamaRequest /\ authMode = Str(<<"apikey_env">>)
          /\ (Falsy(env.UPSTREAM_API_KEY) \/ Trim(env.UPSTREAM_API_KEY.s) = <<>>) ->
            Refused(401, "Missing upstream API key (set UPSTREAM_API_KEY)")
       [] ~isOllamaRequest /\ authMode = Str(<<"apikey_auth_json">>)
          /\ "invalid" \in env.OPENAI_CODEX_AUTH ->
            Refused(400, "Invalid OPENAI_CODEX_AUTH JSON")
       [] ~isOllamaRequest /\ authMode = Str(<<"apikey_auth_json">>)
          /\ "key" \notin env.OPENAI_CODEX_AUTH ->
            Refused(401, "Missing upstream API key in OPENAI_CODEX_AUTH at key 'OPENAI_API_KEY'")
       [] OTHER ->
            \* 666-808
            CASE net.first.t = "Error" -> Caught(net.first, <<net.first>>, auth.refreshes)
              [] net.first.status \in 200..299 ->
                   Returned(net.first, Null, <<net.first>>, auth.refreshes)
              [] ~canRefresh(env, net.first) -> Upstream(<<net.first>>, auth.refreshes)
              [] ~refreshedTokens -> Upstream(<<net.first>>, refreshes)
              [] net.retry.t = "Error" -> Caught(net.retry, <<net.first, net.retry>>, refreshes)
              [] net.retry.status \in 200..299 ->
                   Returned(net.retry, Null, <<net.first, net.retry>>, refreshes)
              [] OTHER -> Upstream(<<net.first, net.retry>>, refreshes)

\* no call made yet
CallInit ==
  /\ request = Null
  /\ returned = Null
  /\ httpRequest = Null
  /\ httpResponse = Null
  /\ applied = Null
  /\ canceled = FALSE
  /\ upstreamCalls = <<>>
  /\ pendingRead = "none"
  /\ fetchSignal = Null
  /\ KV = [auth_tokens |-> Undef, auth_last_refresh |-> Undef]
  /\ now = 0

Init == UpInit /\ SseInit /\ AggIdle /\ UsageIdle /\ CacheInit /\ CallInit
Next ==
  \/ \E n \in 1..2 : ReadUpTo(FALSE, BlankLine, n, MaxLines)
  \/ \E line \in LineSet, n \in 1..5 : ReadUpTo(TRUE, line, n, MaxLines)
  \/ UpstreamEnd
\* one chat stream translated by sseTranslateChat
Spec == Init /\ [][Next]_vars

(***************************************************************************)
(* Properties of the chat stream (Spec).                                   *)
(***************************************************************************)
IsEvent(line, types) == line.kind = "data" /\ line.evt.type \in types
\* a line that signals completion
IsCompletion(line) == line = DoneLine \/ IsEvent(line, {Completed})
Signalled == \E i \in DOMAIN delivered : IsCompletion(delivered[i])
HasReasoningDelta == \E i \in DOMAIN delivered : IsEvent(delivered[i], ReasoningKinds)
Positions(frame) == {i \in DOMAIN out : out[i] = frame}
\* the chunks that carry the upstream's answer text and reasoning text (the
\* deltas of EventSet)
AnswerChunks == {i \in DOMAIN out : out[i] = Chunk("content", TxtA)}
ReasoningTextChunks ==
  {i \in DOMAIN out : out[i] \in {Chunk("content", TxtR), Chunk("content", TxtF)}}
ThinkOpens == Positions(Chunk("content", ThinkOpenTag))
ThinkCloses == Positions(Chunk("content", ThinkCloseTag))

\* C1 (as claimed): once the upstream has signalled completion and the output
\* stream is closed, the output holds exactly one `data: [DONE]` frame and
\* that frame is the last one.
C1_ExactlyOneDoneLast ==
  (status = "closed" /\ Signalled) =>
    (Cardinality(Positions(DoneFrame)) = 1 /\ Last(out) = DoneFrame)

\* C2 (as claimed): in tagged mode, when the upstream has sent a reasoning
\* delta and the stream has been processed to its end, the output holds
\* exactly one `<think>` chunk and exactly one `</think>` chunk.
C2_OneThinkOneClose ==
  (reasoningCompat = "tagged" /\ status = "closed" /\ HasReasoningDelta) =>
    (Cardinality(ThinkOpens) = 1 /\ Cardinality(ThinkCloses) = 1)

\* C3 (as claimed): in tagged mode with a reasoning delta in the stream, a
\* `</think>` chunk precedes every answer text chunk, and no `<think>` and no
\* reasoning text follows an answer text chunk.
C3_CloseBeforeAnswer ==
  (reasoningCompat = "tagged" /\ HasReasoningDelta) =>
    /\ \A j \in AnswerChunks : \E i \in ThinkCloses : i < j
    /\ \A j \in AnswerChunks :
         \A k \in ThinkOpens \cup ReasoningTextChunks : k < j

\* the usage object the spec asks for: the first numeric of prompt_tokens and
\* input_tokens (else 0), the first numeric of completion_tokens and
\* output_tokens (else 0), the explicit total when numeric, else their sum
ClaimedUsage(raw) ==
  LET first(a, b) == IF IsNum(a) THEN a ELSE IF IsNum(b) THEN b ELSE Num(0)
      p == first(raw.prompt_tokens, raw.input_tokens)
      c == first(raw.completion_tokens, raw.output_tokens)
      numeric(v) == IF IsNum(v) THEN v ELSE Undef
  IN UsageOut(p, c, IF IsNum(raw.total_tokens) THEN raw.total_tokens ELSE Num(p.n + c.n),
              numeric(raw.cache_creation_input_tokens),
              numeric(raw.cache_read_input_tokens))

\* the chunk the openai mode owes to one line of a stream of deltas
OpenaiChunks(line) ==
  CASE IsEvent(line, {TextDelta}) -> <<Chunk("content", line.evt.delta)>>
    [] IsEvent(line, {SummaryTextDelta, ReasoningTextDelta}) ->
         <<Chunk("reasoning_content", line.evt.delta)>>
    [] IsEvent(line, {Completed}) ->
         (IF IsObject(line.evt.response_usage)
          THEN <<UsageChunk(ClaimedUsage(line.evt.response_usage))>> ELSE <<>>)
         \o <<DoneFrame>>
    [] OTHER -> <<>>
RECURSIVE Flatten(_)
Flatten(qs) == IF qs = <<>> THEN <<>> ELSE Head(qs) \o Flatten(Tail(qs))
DeltaTypes == {TextDelta, SummaryTextDelta, ReasoningTextDelta}
\* a stream of text and reasoning deltas (and empty lines), with at most one
\* response.completed, which nothing but empty lines follows
DeltasThenCompleted ==
  /\ \A i \in DOMAIN delivered :
       delivered[i] = BlankLine \/ IsEvent(delivered[i], DeltaTypes \cup {Completed})
  /\ \A i, j \in DOMAIN delivered :
       (i < j /\ IsEvent(delivered[i], {Completed})) => delivered[j] = BlankLine

\* C4: in openai mode, for a stream of reasoning and text deltas ended by
\* response.completed, the output is, in this order: one role chunk (ahead of
\* the first delta), one reasoning_content chunk per reasoning delta and one
\* content chunk per text delta in upstream order, then the usage chunk (when
\* the completed event carries usage) and [DONE] last.
C4_OpenaiOrder ==
  (reasoningCompat = "openai" /\ DeltasThenCompleted) =>
    out = (IF \E i \in DOMAIN delivered : IsEvent(delivered[i], DeltaTypes)
           THEN <<RoleChunk>> ELSE <<>>)
          \o Flatten([i \in DOMAIN delivered |-> OpenaiChunks(delivered[i])])
C4_Witness ==
  /\ reasoningCompat = "openai"
  /\ status = "closed"
  /\ delivered = <<DataLine(Evt(SummaryTextDelta, TxtR, NoItem, Undef, Undef)),
                   DataLine(Evt(TextDelta, TxtA, NoItem, Undef, Undef)),
                   DataLine(Evt(Completed, Undef, NoItem, UsageU1, Undef))>>
  /\ out = <<RoleChunk, Chunk("reasoning_content", TxtR), Chunk("content", TxtA),
             UsageChunk(UsageOut(Num(3), Num(2), Num(5), Undef, Undef)), DoneFrame>>

(***************************************************************************)
(* SpecItem: a chat stream of response.output_item.done lines, the items   *)
(* drawn from every combination of present, absent, empty and non-string   *)
(* call_id, id, name and arguments.                                        *)
(***************************************************************************)
ItemSet ==
  {Item("function_call", c, i, nm, a) :
     c \in {Undef, Str(<<>>), Str(<<"c1">>), Num(7)}, i \in {Undef, Str(<<"i1">>), Num(7)},
     nm \in {Undef, Str(<<"f">>), Num(7)}, a \in {Undef, Str(<<"{}">>), Num(7)}}
  \cup {Item("message", Undef, Str(<<"i1">>), Undef, Undef)}
ItemLine(item) == DataLine(Evt(OutputItemDone, Undef, item, Undef, Undef))

NextItem ==
  \/ \E n \in 1..2 : ReadUpTo(FALSE, BlankLine, n, MaxItemLines)
  \/ \E item \in ItemSet, n \in 1..5 : ReadUpTo(TRUE, ItemLine(item), n, MaxItemLines)
  \/ UpstreamEnd
SpecItem == Init /\ [][NextItem]_vars

\* the id the claim gives the tool call: call_id, or item.id when call_id is
\* absent (or empty)
ClaimedCallId(item) ==
  IF IsNullish(item.call_id) \/ item.call_id = Str(<<>>) THEN item.id ELSE item.call_id
\* a function_call item whose call id, name and arguments are strings
StringCall(item) ==
  /\ item.type = "function_call"
  /\ IsStr(ClaimedCallId(item))
  /\ IsStr(item.name)
  /\ IsStr(item.arguments)
\* what the claim has the translator emit for one such item
ClaimedToolChunks(item) ==
  <<Frame("chunk", "tool_calls", Undef, "null",
          [t |-> "object", id |-> ClaimedCallId(item), name |-> item.name,
           arguments |-> item.arguments], NoUsage),
    Frame("chunk", "empty", Undef, "tool_calls", NoTool, NoUsage)>>

\* C6: a stream of output_item.done events whose items are function calls
\* with string call id, name and arguments yields, after the role chunk, for
\* each event in turn exactly two chunks back to back: the tool_calls chunk
\* (index 0, id = call_id or else item.id, type function, the name and the
\* arguments, finish_reason null) and the chunk with empty delta and
\* finish_reason "tool_calls".
C6_ToolCallTwoChunks ==
  (delivered # <<>> /\ \A i \in DOMAIN delivered : StringCall(delivered[i].evt.item)) =>
    out = <<RoleChunk>> \o Flatten([i \in DOMAIN delivered |-> ClaimedToolChunks(delivered[i].evt.item)])
C6_Witness ==
  /\ delivered = <<ItemLine(Item("function_call", Undef, Str(<<"i1">>), Str(<<"f">>), Str(<<"{}">>)))>>
  /\ out = <<RoleChunk, ToolChunk(Str(<<"i1">>), Str(<<"f">>), Str(<<"{}">>)),
             FinishChunk("tool_calls")>>

(***************************************************************************)
(* SpecUsage: one upstream usage payload, as the non-streaming route       *)
(* (normalizeUsage) and the chat stream (the usage chunk) report it.       *)
(***************************************************************************)
UsageSet ==
  {UsageObj(p, i, c, o, tot, cc, cr) :
     p \in {Undef, Num(1), Str(<<"7">>)}, i \in {Undef, Num(3)},
     c \in {Undef, Null, Num(2)}, o \in {Undef, Num(4)},
     tot \in {Undef, Num(99), Str(<<"9">>)},
     cc \in {Undef, Num(5), Str(<<"5">>)}, cr \in {Undef, Num(6)}}
  \cup {Undef, Null, Str(<<"u">>)}

UsageInit ==
  /\ usageIn \in UsageSet
  /\ usageStream = NoUsage
  /\ usageNonStream = NoUsage
  /\ usagePc = "start"

\* part_007 202-203 and sse.ts 382-405 on the same payload
ReportUsage ==
  /\ usagePc = "start"
  /\ usageNonStream' = normalizeUsage(usageIn)
  /\ usageStream' = sseUsage(usageIn)
  /\ usagePc' = "done"
  /\ UNCHANGED <<usageIn, upVars, sseVars, aggVars, cacheVars, callVars, kvVars>>

InitUsage == UpInit /\ SseIdle /\ AggIdle /\ UsageInit /\ CacheInit /\ CallInit
NextUsage == ReportUsage
SpecUsage == InitUsage /\ [][NextUsage]_vars

\* C7 (as claimed): for every usage payload object, both the non-streaming
\* usage and the usage of the stream's usage chunk have prompt_tokens =
\* prompt_tokens else input_tokens else 0, completion_tokens =
\* completion_tokens else output_tokens else 0, total_tokens = the explicit
\* total else their sum, and the cache counts only when numeric.
C7_UsageNormalized ==
  (usagePc = "done" /\ IsObject(usageIn)) =>
    /\ usageNonStream = ClaimedUsage(usageIn)
    /\ usageStream = ClaimedUsage(usageIn)

(***************************************************************************)
(* applyReasoningToMessage (reasoning.ts) and the non-streaming branch of  *)
(* POST /v1/chat/completions (part_007 150-324).                           *)
(***************************************************************************)
\* the message of choices[0]; tool_calls is <<>> when the key is absent
Message(content, toolcalls, reasoning, summary, rcontent) ==
  [content |-> content, reasoning |-> reasoning, tool_calls |-> toolcalls,
   reasoning_summary |-> summary, reasoning_content |-> rcontent]
\* {content: [{type: "text", text: rtxt}]}
StructuredReasoning(rtxt) == [t |-> "object", n |-> 0, s |-> rtxt.s]

\* reasoning.ts 75-82, 90-97, 116-123: the parts that are not blank, joined by "\n\n"
JoinParts_oneNewline(summaryText, reasoningText) ==
  Str(summaryText.s \o <<"\n">> \o reasoningText.s)
JoinParts(summaryText, reasoningText) ==
  LET keepS == Trim(summaryText.s) # <<>>
      keepF == Trim(reasoningText.s) # <<>>
  IN Str(IF keepS /\ keepF THEN summaryText.s \o <<"\n", "\n">> \o reasoningText.s
         ELSE IF keepS THEN summaryText.s
         ELSE IF keepF THEN reasoningText.s
         ELSE <<>>)

\* reasoning.ts 51-129; compat is a raw mode string with its trimmed lower case
applyReasoningToMessage(message, summaryText, reasoningText, compat) ==
  LET mode == IF compat[1] = "" THEN "think-tags" ELSE compat[2]
      rtxt == JoinParts(summaryText, reasoningText)
  IN CASE mode = "hide" -> message
       [] mode = "o3" ->
            IF Falsy(rtxt) THEN message
            ELSE [message EXCEPT !.reasoning = StructuredReasoning(rtxt)]
       [] mode = "r1" ->
            IF Falsy(rtxt) THEN message ELSE [message EXCEPT !.reasoning_content = rtxt]
       [] mode \in {"legacy", "current", "standard"} ->
            [message EXCEPT
               !.reasoning_summary = IF Falsy(summaryText) THEN @ ELSE summaryText,
               !.reasoning = IF Falsy(reasoningText) THEN @ ELSE reasoningText]
       [] OTHER ->
            IF Falsy(rtxt) THEN message
            ELSE [message EXCEPT
                    !.content = Str(ThinkOpenTag.s \o rtxt.s \o ThinkCloseTag.s
                                    \o Or(message.content, Str(<<>>)).s)]

\* part_007 18-25: override || env.REASONING_OUTPUT_MODE || "openai", and
\* "all" served as openai on the root route
routeCompat(raw) ==
  IF raw[1] = "" \/ raw[2] = "all" THEN <<"openai", "openai">> ELSE raw
AggRawModes ==
  {<<"hidden", "hidden">>, <<"hide", "hide">>, <<"tagged", "tagged">>,
   <<"openai", "openai">>, <<"o3", "o3">>, <<"r1", "r1">>, <<"  O3  ", "o3">>,
   <<"standard", "standard">>, <<"", "">>, <<"all", "all">>}

\* the locals of the branch that the line loop works on
AggState ==
  [brk |-> FALSE, fullText |-> fullText, reasoningSummaryText |-> reasoningSummaryText,
   reasoningFullText |-> reasoningFullText, toolCalls |-> toolCalls,
   finalUsage |-> finalUsage, errorMessage |-> errorMessage,
   completedEarly |-> completedEarly, sawDataPrefix |-> sawDataPrefix]

\* part_007 199-204
AggCaptureUsage(a, evt) ==
  LET u == normalizeUsage(RawUsageOf(evt))
  IN IF u # NoUsage /\ (a.finalUsage = NoUsage \/ evt.type = Completed)
     THEN [a EXCEPT !.finalUsage = u] ELSE a

\* part_007 211-224
AggOnOutputItemDone(a, evt) ==
  LET item == evt.item
      isCall == ~Falsy(item) /\ item.type = "function_call"
      callId == IF isCall THEN Or(item.call_id, Or(item.id, Str(<<>>))) ELSE Undef
      name == IF isCall THEN Or(item.name, Str(<<>>)) ELSE Undef
      args == IF isCall THEN Or(item.arguments, Str(<<>>)) ELSE Undef
  IN IF isCall /\ IsStr(callId) /\ IsStr(name) /\ IsStr(args)
     THEN [a EXCEPT !.toolCalls =
             Append(@, [t |-> "object", id |-> callId, name |-> name, arguments |-> args])]
     ELSE a

\* part_007 192-231: one parsed event
AggOnEvent(a, evt) ==
  LET kind == evt.type
      b == AggCaptureUsage(a, evt)
  IN CASE kind = TextDelta ->
            [b EXCEPT !.fullText = Plus(@, Or(evt.delta, Str(<<>>)))]
       [] kind = SummaryTextDelta ->
            [b EXCEPT !.reasoningSummaryText = Plus(@, Or(evt.delta, Str(<<>>)))]
       [] kind = ReasoningTextDelta ->
            [b EXCEPT !.reasoningFullText = Plus(@, Or(evt.delta, Str(<<>>)))]
       [] kind = OutputItemDone -> AggOnOutputItemDone(b, evt)
       [] kind = Failed -> [b EXCEPT !.errorMessage = Str(<<"response.failed">>)]
       [] kind = Completed -> [b EXCEPT !.completedEarly = TRUE]
       [] OTHER -> b

\* part_007 186-235: one line of the line loop; a parse error (and the
\* TypeError on `null.type`) is caught and logged
AggHandleLine(a, line) ==
  CASE line.kind = "blank" -> a
    [] line.kind = "done" -> [a EXCEPT !.sawDataPrefix = TRUE, !.brk = TRUE]
    [] line.kind \in {"bad", "null"} -> [a EXCEPT !.sawDataPrefix = TRUE]
    [] OTHER -> AggOnEvent([a EXCEPT !.sawDataPrefix = TRUE], line.evt)

\* part_007 185-236: the `for` loop, left by `break` on [DONE]
RECURSIVE AggHandleLines(_, _)
AggHandleLines(a, lines) ==
  IF lines = <<>> \/ a.brk THEN a
  ELSE AggHandleLines(AggHandleLine(a, Head(lines)), Tail(lines))

\* what the route answers
Response(http, error, message, usage) ==
  [usage |-> usage, message |-> message, error |-> error, http |-> http]
\* part_007 288-323: the 502 on an error message, else the chat completion
\* (the single-JSON fallback of 244-287 needs an upstream without `data: `
\* lines and with text, which the lines modelled here do not form)
Respond(a, compat) ==
  IF ~Falsy(a.errorMessage)
  THEN Response(502, a.errorMessage, Null, NoUsage)
  ELSE Response(200, Null,
                applyReasoningToMessage(
                  Message(Or(a.fullText, Null), a.toolCalls, Undef, Undef, Undef),
                  a.reasoningSummaryText, a.reasoningFullText, compat),
                a.finalUsage)

\* the lines an upstream may send to the non-streaming branch
AggLineSet ==
  {DataLine(e) : e \in
     {Evt(TextDelta, TxtA, NoItem, Undef, Undef),
      Evt(SummaryTextDelta, TxtR, NoItem, Undef, Undef),
      Evt(ReasoningTextDelta, TxtF, NoItem, Undef, Undef),
      Evt(OutputItemDone, Undef, CallItem, Undef, Undef),
      Evt(Failed, Undef, NoItem, Undef, Undef),
      Evt(Completed, Undef, NoItem, Undef, Undef),
      Evt(Completed, Undef, NoItem, UsageU1, Undef)}}
  \cup {DoneLine, BlankLine, BadLine, NullLine}

\* part_007 18-25, 150-164
AggInit ==
  /\ \E raw \in AggRawModes : aggCompat = routeCompat(raw)
  /\ fullText = Str(<<>>)
  /\ reasoningSummaryText = Str(<<>>)
  /\ reasoningFullText = Str(<<>>)
  /\ toolCalls = <<>>
  /\ finalUsage = NoUsage
  /\ errorMessage = Null
  /\ completedEarly = FALSE
  /\ aggBuffer = <<>>
  /\ sawDataPrefix = FALSE
  /\ aggStatus = "reading"
  /\ response = Null

\* part_007 180-236, then 288-323 when the loop is left: one
\* `await reader.read()` that yields a value.  After response.completed the
\* value is discarded and the route answers; otherwise the line loop folds
\* the value's lines and the route reads on.
AggRead(more, line, n) ==
  /\ aggStatus = "reading"
  /\ UpstreamSends(aggBuffer, more, line, n, MaxAggLines)
  /\ IF completedEarly
     THEN /\ aggStatus' = "responded"
          /\ response' = Respond(AggState, aggCompat)
          /\ UNCHANGED <<fullText, reasoningSummaryText, reasoningFullText, toolCalls,
                         finalUsage, errorMessage, completedEarly, aggBuffer, sawDataPrefix>>
     ELSE \E units \in {aggBuffer \o SubSeq(IF more THEN upPending \o Units(line) ELSE upPending, 1, n)} :
            \E a \in {AggHandleLines(AggState, LinesOf(units))} :
              /\ aggBuffer' = Remainder(units)
              /\ fullText' = a.fullText
              /\ reasoningSummaryText' = a.reasoningSummaryText
              /\ reasoningFullText' = a.reasoningFullText
              /\ toolCalls' = a.toolCalls
              /\ finalUsage' = a.finalUsage
              /\ errorMessage' = a.errorMessage
              /\ completedEarly' = a.completedEarly
              /\ sawDataPrefix' = a.sawDataPrefix
              /\ UNCHANGED <<aggStatus, response>>
  /\ UNCHANGED <<aggCompat, sseVars, usageVars, cacheVars, callVars, kvVars>>

\* part_007 180-181, then 288-323: the read reports done and the route answers
AggUpstreamEnd ==
  /\ aggStatus = "reading"
  /\ aggStatus' = "responded"
  /\ response' = Respond(AggState, aggCompat)
  /\ upPending' = <<>>
  /\ aggBuffer' = <<>>
  /\ UNCHANGED <<delivered, aggCompat, fullText, reasoningSummaryText, reasoningFullText,
                 toolCalls, finalUsage, errorMessage, completedEarly, sawDataPrefix,
                 sseVars, usageVars, cacheVars, callVars, kvVars>>

InitAgg == UpInit /\ SseIdle /\ AggInit /\ UsageIdle /\ CacheInit /\ CallInit
NextAgg ==
  \/ \E n \in 1..2 : AggRead(FALSE, BlankLine, n)
  \/ \E line \in AggLineSet, n \in 1..5 : AggRead(TRUE, line, n)
  \/ AggUpstreamEnd
\* one non-streaming chat completion aggregated from the upstream stream
SpecAgg == InitAgg /\ [][NextAgg]_vars

\* C5 (as claimed): a non-streaming chat completion in hidden mode whose
\* upstream carried reasoning deltas has a message without `reasoning` and
\* without `reasoning_content`, whose content is the aggregated answer text
\* alone (null when there is none): no think block.
C5_HiddenNoReasoning ==
  (/\ aggStatus = "responded"
   /\ aggCompat[2] = "hidden"
   /\ HasReasoningDelta
   /\ response.http = 200) =>
    /\ response.message.reasoning = Undef
    /\ response.message.reasoning_content = Undef
    /\ response.message.content = Or(fullText, Null)

(***************************************************************************)
(* The session cache and ensureSessionId (types.ts 304-376).               *)
(***************************************************************************)
\* an input item and a part of its content
InputItem(type, role, content) == [type |-> type, content |-> content, role |-> role]
InputText(text) == [type |-> "input_text", text |-> text]

\* types.ts 319-342: the first message with role user (an unknown role
\* counts as user) that keeps at least one part, an input_text part with a
\* non-empty string text or an input_image part whose image_url is a
\* non-empty string (the {url} form is not among the inputs); Null when
\* there is none
RECURSIVE canonicalizeFirstUserMessage(_)
canonicalizeFirstUserMessage(inputItems) ==
  IF inputItems = <<>> THEN Null
  ELSE LET item == Head(inputItems)
           role == IF item.role \in {"assistant", "user"} THEN item.role ELSE "user"
           kept == SelectSeq(item.content,
                             LAMBDA part :
                               \/ part.type = "input_text" /\ IsStr(part.text)
                                  /\ part.text.s # <<>>
                               \/ part.type = "input_image" /\ IsStr(part.image_url)
                                  /\ part.image_url.s # <<>>)
           \* an image part is reduced to its type and its URL
           norm == [i \in DOMAIN kept |->
                      IF kept[i].type = "input_image"
                      THEN [type |-> "input_image", image_url |-> kept[i].image_url]
                      ELSE kept[i]]
       IN IF item.type = "message" /\ role = "user" /\ norm # <<>>
          THEN InputItem("message", "user", norm)
          ELSE canonicalizeFirstUserMessage(Tail(inputItems))

\* types.ts 344-355: JSON.stringify(prefix, Object.keys(prefix).sort()).  The
\* array replacer is the list of keys kept at every depth, so of
\* first_user_message, whose keys are type, role and content, `{}` remains.
\* The key is kept as the pair of what the string holds for each property
\* (Undef for a property left out).
canonicalizePrefix(instructions, inputItems) ==
  LET inst == IF IsStr(instructions) THEN Str(Trim(instructions.s)) ELSE Str(<<>>)
      first == canonicalizeFirstUserMessage(inputItems)
  IN [instructions |-> IF Falsy(inst) THEN Undef ELSE inst,
      first_user_message |-> IF first = Null THEN Undef ELSE Str(<<"{}">>)]

\* FP_TO_UUID and FP_ORDER together
Cache(map, order) == [map |-> map, order |-> order]
MapSet(map, fp, sid) == [k \in DOMAIN map \cup {fp} |-> IF k = fp THEN sid ELSE map[k]]
MapDelete(map, fp) == [k \in DOMAIN map \ {fp} |-> map[k]]

\* remember that stores nothing
remember_forget(cache, fp, sid) == cache
\* remember that spares the oldest key and drops the one after it
remember_keepOldest(cache, fp, sid) ==
  IF fp \in DOMAIN cache.map THEN cache
  ELSE LET m == MapSet(cache.map, fp, sid)
           o == Append(cache.order, fp)
       IN IF Len(o) > MAX_ENTRIES
          THEN Cache(MapDelete(m, o[2]), <<o[1]>> \o SubSeq(o, 3, Len(o)))
          ELSE Cache(m, o)
\* remember that shifts the oldest key out of the order and leaves its id
\* in the map
remember_keepEvicted(cache, fp, sid) ==
  IF fp \in DOMAIN cache.map THEN cache
  ELSE LET m == MapSet(cache.map, fp, sid)
           o == Append(cache.order, fp)
       IN IF Len(o) > MAX_ENTRIES THEN Cache(m, Tail(o)) ELSE Cache(m, o)
\* types.ts 309-317 (a key is a non-empty string, so `if (oldest)` holds)
remember(cache, fp, sid) ==
  IF fp \in DOMAIN cache.map THEN cache
  ELSE LET m == MapSet(cache.map, fp, sid)
           o == Append(cache.order, fp)
       IN IF Len(o) > MAX_ENTRIES
          THEN Cache(MapDelete(m, Head(o)), Tail(o))
          ELSE Cache(m, o)

\* the result of ensureSessionId and the cache it leaves
Ensured(ret, cache) == [ret |-> ret, cache |-> cache]
\* ensureSessionId that files the client's id under the request's key
ensureSessionId_cachesClient(cache, instructions, inputItems, clientSupplied, uuid) ==
  LET client == Str(Trim(Or(clientSupplied, Str(<<>>)).s))
      key == canonicalizePrefix(instructions, inputItems)
  IN IF ~Falsy(client) THEN Ensured(client, remember(cache, key, client))
     ELSE IF key \in DOMAIN cache.map /\ ~Falsy(cache.map[key])
     THEN Ensured(cache.map[key], cache)
     ELSE Ensured(uuid, remember(cache, key, uuid))
\* types.ts 357-376; uuid is what crypto.randomUUID() returns if it is called
ensureSessionId(cache, instructions, inputItems, clientSupplied, uuid) ==
  LET client == Str(Trim(Or(clientSupplied, Str(<<>>)).s))
      key == canonicalizePrefix(instructions, inputItems)
  IN IF ~Falsy(client) THEN Ensured(client, cache)
     ELSE IF key \in DOMAIN cache.map /\ ~Falsy(cache.map[key])
     THEN Ensured(cache.map[key], cache)
     ELSE Ensured(uuid, remember(cache, key, uuid))

\* the arguments of the calls
InstructionSet == {Undef, Str(<<" ", "a">>)}
InputItemsSet ==
  {<<>>,
   <<InputItem("message", "user", <<InputText(Str(<<"x">>))>>)>>,
   <<InputItem("message", "assistant", <<InputText(Str(<<"z">>))>>),
     InputItem("message", "user", <<InputText(Str(<<"y">>))>>)>>,
   <<InputItem("message", "user",
               <<[type |-> "input_image", image_url |-> Str(<<"http://i">>), detail |-> "low"]>>)>>}
ClientIdSet == {Undef, Str(<<" ">>), Str(<<"c">>), Str(<<" ", "c", " ">>)}
UUIDs == {Str(<<"u1">>), Str(<<"u2">>)}

\* two calls with the same instructions and first user message, neither
\* with a client id
SameRequest(a, b) ==
  /\ a.instructions = b.instructions
  /\ canonicalizeFirstUserMessage(a.inputItems) = canonicalizeFirstUserMessage(b.inputItems)
  /\ Falsy(a.clientSupplied)
  /\ Falsy(b.clientSupplied)

\* upstream.ts 359: one call of ensureSessionId
Call(instructions, inputItems, clientSupplied, uuid) ==
  \E r \in {ensureSessionId(Cache(FP_TO_UUID, FP_ORDER), instructions, inputItems,
                            clientSupplied, uuid)} :
    LET key == canonicalizePrefix(instructions, inputItems)
        dropped == DOMAIN FP_TO_UUID \ DOMAIN r.cache.map
        added == DOMAIN r.cache.map \ DOMAIN FP_TO_UUID
        hit == r.cache = Cache(FP_TO_UUID, FP_ORDER) /\ key \in DOMAIN FP_TO_UUID
               /\ r.ret = FP_TO_UUID[key]
        this == CallRecord(TRUE, instructions, inputItems, clientSupplied, r.ret, hit, FALSE,
                           IF dropped = {} THEN <<>> ELSE <<CHOOSE k \in dropped : TRUE>>)
    IN /\ FP_TO_UUID' = r.cache.map
       /\ FP_ORDER' = r.cache.order
       /\ lastCall' = [this EXCEPT !.again = lastCall.made /\ SameRequest(lastCall, this)]
       /\ recentHit' = IF hit THEN <<key>> ELSE recentHit
       /\ insertion' = SelectSeq(insertion, LAMBDA k : k \notin dropped)
                       \o (IF added = {} THEN <<>> ELSE <<CHOOSE k \in added : TRUE>>)
       /\ UNCHANGED <<upVars, sseVars, aggVars, usageVars, callVars, kvVars>>

InitCache == UpInit /\ SseIdle /\ AggIdle /\ UsageIdle /\ CacheInit /\ CallInit
NextCache ==
  \E instructions \in InstructionSet, inputItems \in InputItemsSet,
     clientSupplied \in ClientIdSet, uuid \in UUIDs :
    Call(instructions, inputItems, clientSupplied, uuid)
\* a run of ensureSessionId calls on one worker's cache
SpecCache == InitCache /\ [][NextCache]_vars

\* C8: a call of ensureSessionId that follows a call with the same
\* instructions and first user message, neither with a client id, returns the
\* id the first call returned.
C8_SameIdTwice ==
  [][(lastCall.made /\ SameRequest(lastCall, lastCall')) => lastCall'.ret = lastCall.ret]_vars
C8_Witness ==
  /\ lastCall.again
  /\ lastCall.hit
  /\ lastCall.ret \in UUIDs

\* C9 (as claimed): a call with a non-empty client id returns that id
\* verbatim and leaves FP_TO_UUID and FP_ORDER unchanged.
C9_ClientIdVerbatim ==
  [][(IsStr(lastCall'.clientSupplied) /\ lastCall'.clientSupplied.s # <<>>) =>
       /\ lastCall'.ret = lastCall'.clientSupplied
       /\ UNCHANGED <<FP_TO_UUID, FP_ORDER>>]_vars
\* C9 (amended): a call with a client id that is non-empty once trimmed
\* returns the trimmed id and leaves FP_TO_UUID and FP_ORDER unchanged.
C9_ClientIdTrimmed ==
  [][(IsStr(lastCall'.clientSupplied) /\ Trim(lastCall'.clientSupplied.s) # <<>>) =>
       /\ lastCall'.ret = Str(Trim(lastCall'.clientSupplied.s))
       /\ UNCHANGED <<FP_TO_UUID, FP_ORDER>>]_vars
C9_Witness ==
  /\ lastCall.made
  /\ lastCall.clientSupplied = Str(<<" ", "c", " ">>)
  /\ lastCall.ret = Str(<<"c">>)
  /\ FP_ORDER # <<>>

Request ==
  /\ request = Null
  /\ \E ollamaPath \in BOOLEAN,
        mode \in {Undef, Str(<<"chatgpt_token">>), Str(<<"apikey_env">>),
                  Str(<<"apikey_auth_json">>)},
        key \in {Undef, Str(<<" ">>), Str(<<"k">>)},
        auth \in {{}, {"invalid"}, {"json"}, {"json", "key"}, {"json", "tokens"},
                  {"json", "tokens", "stale"}, {"json", "tokens", "key"}},
        \* a fetch answers with a Response or throws an Error with a message
        first \in {Resp(200, Undef), Resp(401, Undef), Resp(401, Str(<<"expired">>)),
                   Resp(500, Str(<<"overloaded">>)),
                   [t |-> "Error", message |-> Str(<<"connection reset">>)]},
        refresh \in BOOLEAN,
        retry \in {Resp(200, Undef), Resp(401, Str(<<"expired">>)),
                   Resp(500, Str(<<"overloaded">>)),
                   [t |-> "Error", message |-> Str(<<"The operation was aborted">>)]} :
       LET env == [OPENAI_CODEX_AUTH |-> auth, UPSTREAM_AUTH_MODE |-> mode,
                   ollamaPath |-> ollamaPath, UPSTREAM_API_KEY |-> key]
           net == [refresh |-> refresh, first |-> first, retry |-> retry]
       IN /\ request' = [env |-> env, net |-> net]
          /\ returned' = startUpstreamRequest(env, net)
  /\ UNCHANGED <<upVars, sseVars, aggVars, usageVars, cacheVars, httpRequest, httpResponse, applied,
                 canceled, upstreamCalls, pendingRead, fetchSignal, kvVars>>

\* nothing started: no stream, no aggregation, no call
InitIdle == UpInit /\ SseIdle /\ AggIdle /\ UsageIdle /\ CacheInit /\ CallInit
SpecUpstream == InitIdle /\ [][Request]_vars

\* C11: every call of startUpstreamRequest that returns yields a response
\* and an error of which exactly one is non-null
C11_ExactlyOneNonNull ==
  request # Null => (returned.response = Null) # (returned.error = Null)
\* a call whose first fetch was answered 401, refused again after the
\* refresh: the failed retry is returned as an error only
C11_Witness ==
  /\ request # Null
  /\ Len(returned.posts) = 2
  /\ returned.posts[2].t = "Response"
  /\ returned.posts[2].status = 401
  /\ returned.response = Null
  /\ returned.error = Resp(401, Str(<<"expired">>))


\* the first fetch of the call was answered 401 in the chatgpt_token mode
Unauthorized ==
  /\ request.net.first.t = "Response"
  /\ request.net.first.status = 401
  /\ request.env.UPSTREAM_AUTH_MODE \in {Undef, Str(<<"chatgpt_token">>)}
\* at most two fetches, the second only after a 401 in the chatgpt_token
\* mode and a refresh for it, and a second fetch answered 2xx is the response
RetryOnce ==
  /\ Len(returned.posts) <= 2
  /\ Len(returned.posts) = 2 =>
       /\ Unauthorized
       /\ returned.posts = <<request.net.first, request.net.retry>>
       /\ "401" \in {returned.refreshes[i] : i \in DOMAIN returned.refreshes}
       /\ (request.net.retry.t = "Response" /\ request.net.retry.status \in 200..299) =>
            (returned.response = request.net.retry /\ returned.error = Null)
\* C12 as stated: within one call a token refresh and a retry each happen
\* at most once and only when the first response is a 401 in the
\* chatgpt_token mode; at most two fetches; a successful retry is returned
\* as the response with error null
C12_OneRefreshOnly401 ==
  request # Null =>
    /\ Len(returned.refreshes) <= 1
    /\ returned.refreshes # <<>> => Unauthorized
    /\ RetryOnce
\* C12 amended: the refresh that answers a 401 happens at most once and only
\* in the chatgpt_token mode; one more refresh is made before the first
\* fetch, in every mode, when the stored tokens are older than 28 days
C12_RefreshAfter401Once ==
  request # Null =>
    /\ returned.refreshes \in {<<>>, <<"401">>, <<"last_refresh">>, <<"last_refresh", "401">>}
    /\ "401" \in {returned.refreshes[i] : i \in DOMAIN returned.refreshes} => Unauthorized
    /\ returned.refreshes # <<>> /\ returned.refreshes[1] = "last_refresh" =>
         {"tokens", "stale"} \subseteq request.env.OPENAI_CODEX_AUTH
    /\ RetryOnce
\* stale tokens refreshed before the first fetch and again after its 401,
\* and the retry answered 200
C12_Witness ==
  /\ request # Null
  /\ returned.refreshes = <<"last_refresh", "401">>
  /\ Len(returned.posts) = 2
  /\ returned.response = Resp(200, Undef)
  /\ returned.error = Null


\* C13: a fetch that throws, the first or the retry, is the last fetch of
\* the call, and the call returns no response and an error of status 502
\* whose message ends with the message of the thrown error
C13_NetworkFailure502 ==
  request # Null =>
    \A i \in DOMAIN returned.posts :
      returned.posts[i].t = "Error" =>
        LET raw == returned.posts[i].message.s
            text == returned.error.message.s
        IN /\ i = Len(returned.posts)
           /\ returned.response = Null
           /\ returned.error.status = 502
           /\ Len(text) > Len(raw)
           /\ SubSeq(text, Len(text) - Len(raw) + 1, Len(text)) = raw
\* the retry after a refresh is aborted
C13_Witness ==
  /\ request # Null
  /\ Len(returned.posts) = 2
  /\ returned.posts[2] = [t |-> "Error", message |-> Str(<<"The operation was aborted">>)]
  /\ returned.error =
       Resp(502, Str(<<"Upstream ChatGPT request failed: ", "The operation was aborted">>))


(***************************************************************************)
(* The app (src/src/index.ts): the routes of routes/openai.ts              *)
(* (src/unnamed/part_007) mounted on / and those of routes/ollama.ts       *)
(* (src/src/routes/ollama.ts 1-185) on /api.  A context c holds the        *)
(* request (route, Authorization header, is the body JSON) and the         *)
(* environment.  Two versions of routes/openai.ts are among the sources:   *)
(* part_007, without a check of the legacy modes, and the one at           *)
(* routes/ollama.ts 575-1027, with it; c.env.build says which one is       *)
(* deployed.                                                               *)
(***************************************************************************)
\* types.ts 385-410: the 401 of the middleware, or Null when it calls next()
openaiAuthMiddleware(c) ==
  LET authHeader == c.req.Authorization
      Unauthorized401(message) == Resp(401, Str(<<message>>))
  IN CASE Falsy(authHeader) -> Unauthorized401("Missing Authorization header")
       [] Head(authHeader.s) # "Bearer " ->
            Unauthorized401("Invalid Authorization header format. Expected: Bearer <token>")
       [] Falsy(c.env.OPENAI_API_KEY) -> Null
       [] Str(Tail(authHeader.s)) # c.env.OPENAI_API_KEY -> Unauthorized401("Invalid API key")
       [] OTHER -> Null

\* routes/ollama.ts 590-609 and 835-851: the 400 on a legacy mode, or Null
rejectLegacyCurrent(c) ==
  LET compatRaw ==
        CASE c.env.REASONING_OUTPUT_MODE[1] # "" -> c.env.REASONING_OUTPUT_MODE
          [] c.env.REASONING_COMPAT[1] # "" -> c.env.REASONING_COMPAT
          [] OTHER -> <<"tagged", "tagged">>
  IN IF compatRaw[2] \in {"legacy", "current"}
     THEN Resp(400, Str(<<"REASONING_COMPAT/REASONING_OUTPUT_MODE", " ", "no", " ", "longer", " ",
                          "supports", " ", "legacy/current.", " ", "Use", " ", "standard.">>))
     ELSE Null

\* what the app answers, and the startUpstreamRequest call it makes, if any
appFetch(c, net) ==
  LET Answer(resp, call, ret) == [request |-> call, returned |-> ret, answer |-> resp]
      Proxy(ollamaPath) ==
        \* part_007 113-134 and 374-401, routes/ollama.ts 41-53, 126-143, 157-173
        LET env == [OPENAI_CODEX_AUTH |-> c.env.OPENAI_CODEX_AUTH,
                    UPSTREAM_AUTH_MODE |-> Undef, ollamaPath |-> ollamaPath,
                    UPSTREAM_API_KEY |-> Undef]
            ret == startUpstreamRequest(env, net)
        IN Answer(IF ret.error # Null THEN ret.error ELSE Resp(ret.response.status, Undef),
                  [env |-> env, net |-> net], ret)
      guarded == c.req.route \in {"POST /v1/chat/completions", "POST /v1/completions",
                                  "POST /api/chat", "POST /api/show"}
      checked == /\ c.env.build = "routes/ollama.ts"
                 /\ c.req.route \in {"POST /v1/chat/completions", "POST /v1/completions"}
  IN CASE c.req.route \in {"GET /", "GET /health", "GET /v1/models"} ->
            Answer(Resp(200, Undef), Null, Null)
       [] c.req.route = "GET /api/tags" -> Proxy(TRUE)
       [] guarded /\ openaiAuthMiddleware(c) # Null -> Answer(openaiAuthMiddleware(c), Null, Null)
       [] checked /\ rejectLegacyCurrent(c) # Null -> Answer(rejectLegacyCurrent(c), Null, Null)
       [] ~c.req.json -> Answer(Resp(400, Str(<<"Invalid JSON body">>)), Null, Null)
       [] OTHER -> Proxy(c.req.route \in {"POST /api/chat", "POST /api/show"})

Fetch ==
  /\ httpRequest = Null
  /\ \E route \in {"GET /", "GET /health", "GET /v1/models", "GET /api/tags",
                   "POST /v1/chat/completions", "POST /v1/completions", "POST /api/chat",
                   "POST /api/show"},
        authHeader \in {Undef, Str(<<"k">>), Str(<<"Basic ", "k">>), Str(<<"Bearer ", "k">>),
                        Str(<<"Bearer ", "other">>)},
        json \in BOOLEAN,
        key \in {Undef, Str(<<"k">>)},
        outputMode \in {<<"", "">>, <<"legacy", "legacy">>, <<"current", "current">>,
                        <<"openai", "openai">>},
        compat \in {<<"", "">>, <<"legacy", "legacy">>, <<"tagged", "tagged">>},
        build \in {"part_007", "routes/ollama.ts"},
        auth \in {{}, {"json", "tokens"}},
        first \in {Resp(200, Undef), Resp(500, Str(<<"overloaded">>))} :
       LET c == [env |-> [OPENAI_CODEX_AUTH |-> auth, OPENAI_API_KEY |-> key,
                          REASONING_OUTPUT_MODE |-> outputMode, REASONING_COMPAT |-> compat,
                          build |-> build],
                 req |-> [Authorization |-> authHeader, route |-> route, json |-> json]]
           r == appFetch(c, [refresh |-> FALSE, first |-> first, retry |-> first])
       IN /\ httpRequest' = c
          /\ httpResponse' = r.answer
          /\ request' = r.request
          /\ returned' = r.returned
  /\ UNCHANGED <<upVars, sseVars, aggVars, usageVars, cacheVars, applied, canceled,
                 upstreamCalls, pendingRead, fetchSignal, kvVars>>

\* one request to the app
SpecApp == InitIdle /\ [][Fetch]_vars


\* the request passed the middleware of its route
Authorized == openaiAuthMiddleware(httpRequest) = Null
\* REASONING_OUTPUT_MODE or REASONING_COMPAT is set, and to nothing but
\* legacy or current
LegacyConfigured ==
  LET set == {m \in {httpRequest.env.REASONING_OUTPUT_MODE, httpRequest.env.REASONING_COMPAT} :
                m[1] # ""}
  IN set # {} /\ \A m \in set : m[1] \in {"legacy", "current"}
\* C14: an authorized request with a JSON body to /v1/chat/completions or
\* /v1/completions under a configured mode legacy or current is answered 400 with a message
\* that contains `Use openai`, and startUpstreamRequest is not called
C14_LegacyRejected ==
  (/\ httpRequest # Null
   /\ httpRequest.req.route \in {"POST /v1/chat/completions", "POST /v1/completions"}
   /\ httpRequest.req.json
   /\ Authorized
   /\ LegacyConfigured) =>
    /\ httpResponse.status = 400
    /\ request = Null
    /\ \E i \in 1..(Len(httpResponse.message.s) - 2) :
         SubSeq(httpResponse.message.s, i, i + 2) = <<"Use", " ", "openai">>

\* C20: with OPENAI_API_KEY configured, a request to any route but GET / and
\* GET /health that has no Authorization header, a header that is not a
\* Bearer one, or another Bearer token is answered 401 and
\* startUpstreamRequest is not called
C20_AllRoutesAuthenticated ==
  (/\ httpRequest # Null
   /\ httpRequest.env.OPENAI_API_KEY = Str(<<"k">>)
   /\ httpRequest.req.route \notin {"GET /", "GET /health"}
   /\ httpRequest.req.Authorization # Str(<<"Bearer ", "k">>)) =>
    /\ httpResponse.status = 401
    /\ request = Null


(***************************************************************************)
(* normalizeCompatMode and applyReasoningToMessage on a mode, a message    *)
(* and two reasoning texts.  A mode is written as in RawModes; the         *)
(* arguments undefined and null are written <<"undefined", "">> and        *)
(* <<"null", "">>, (raw || "") being "" for both.                          *)
(***************************************************************************)
Apply ==
  /\ applied = Null
  /\ \E content \in {Null, Str(<<>>), Str(<<"Hello">>)},
        summaryText \in {Str(<<>>), Str(<<" ">>), Str(<<"S">>)},
        reasoningText \in {Str(<<>>), Str(<<"\n">>), Str(<<"F">>)},
        compat \in RawModes \cup {<<"R1", "r1">>, <<"  OPENAI  ", "openai">>, <<"O3", "o3">>,
                                  <<"standard", "standard">>, <<"legacy", "legacy">>,
                                  <<"undefined", "">>, <<"null", "">>} :
       applied' = [out |-> applyReasoningToMessage(Message(content, <<>>, Undef, Undef, Undef),
                                                   summaryText, reasoningText, compat),
                   message |-> Message(content, <<>>, Undef, Undef, Undef),
                   summaryText |-> summaryText, reasoningText |-> reasoningText,
                   compat |-> compat, mode |-> normalizeCompatMode(compat)]
  /\ UNCHANGED <<upVars, sseVars, aggVars, usageVars, cacheVars, request, returned,
                 httpRequest, httpResponse, canceled, upstreamCalls, pendingRead, fetchSignal, kvVars>>
SpecReasoning == InitIdle /\ [][Apply]_vars

JoinedReasoning ==
  LET parts == SelectSeq(<<applied.summaryText.s, applied.reasoningText.s>>,
                         LAMBDA p : \E i \in DOMAIN p : p[i] \notin Whitespace)
  IN CASE Len(parts) = 2 -> parts[1] \o <<"\n", "\n">> \o parts[2]
       [] Len(parts) = 1 -> parts[1]
       [] OTHER -> <<>>
\* C17 (as claimed): in the openai and r1 modes, whatever their case and
\* the whitespace around them, the content of the message is unchanged and
\* the joined reasoning, when not empty, is its reasoning_content
C17_ReasoningContent ==
  (applied # Null /\ applied.compat[2] \in {"openai", "r1"}) =>
    /\ applied.out.content = applied.message.content
    /\ JoinedReasoning # <<>> => applied.out.reasoning_content = Str(JoinedReasoning)

MaxCancelLines == 1
\* sse.ts 428-436: the handler up to its first await, then from the first
\* await to the second
Cancel ==
  \/ /\ status = "reading"
     /\ status' = "canceled"
     /\ canceled' = TRUE
     /\ upstreamCalls' = <<"reader.cancel">>
     /\ UNCHANGED <<upVars, reasoningCompat, thinkOpen, thinkClosed, sawAnySummary,
                    pendingSummaryParagraph, sentRole, buffer, out, aggVars, usageVars,
                    cacheVars, request, returned, httpRequest, httpResponse, applied,
                    pendingRead, fetchSignal, kvVars>>
  \/ /\ upstreamCalls = <<"reader.cancel">>
     /\ upstreamCalls' = <<"reader.cancel", "upstreamBody.cancel">>
     /\ UNCHANGED <<upVars, sseVars, aggVars, usageVars, cacheVars, request, returned,
                    httpRequest, httpResponse, applied, canceled, pendingRead, fetchSignal, kvVars>>

\* sse.ts 79-82, 412-426 after the cancel: the pending read ends with done
\* (the loop breaks), with a rejection (the catch, which calls
\* controller.error unless canceled) or with a chunk that came in before
\* the cancel (the enqueue of a frame throws on the closed stream, into
\* the catch or into the handler's own try); then the finally block, whose
\* controller.close throws and is caught
Settle_noFlag(how) ==
  /\ status = "canceled"
  /\ pendingRead' = how
  /\ status' = IF how = "done" THEN "closed" ELSE "errored"
  /\ buffer' = <<>>
  /\ upPending' = <<>>
  /\ UNCHANGED <<delivered, reasoningCompat, thinkOpen, thinkClosed, sawAnySummary,
                 pendingSummaryParagraph, sentRole, out, aggVars, usageVars, cacheVars,
                 request, returned, httpRequest, httpResponse, applied, canceled,
                 upstreamCalls, fetchSignal, kvVars>>
Settle(how) ==
  /\ status = "canceled"
  /\ pendingRead' = how
  /\ status' = IF how = "done" \/ canceled THEN "closed" ELSE "errored"
  /\ buffer' = <<>>
  /\ upPending' = <<>>
  /\ UNCHANGED <<delivered, reasoningCompat, thinkOpen, thinkClosed, sawAnySummary,
                 pendingSummaryParagraph, sentRole, out, aggVars, usageVars, cacheVars,
                 request, returned, httpRequest, httpResponse, applied, canceled,
                 upstreamCalls, fetchSignal, kvVars>>

NextCancel ==
  \/ \E n \in 1..2 : ReadUpTo(FALSE, BlankLine, n, MaxCancelLines)
  \/ \E line \in LineSet, n \in 1..5 : ReadUpTo(TRUE, line, n, MaxCancelLines)
  \/ UpstreamEnd
  \/ Cancel
  \/ \E how \in {"done", "rejected", "chunk"} : Settle(how)
\* one chat stream that the consumer may cancel
SpecCancel == Init /\ [][NextCancel]_vars

\* C16: the cancel handler calls cancel on the upstream reader and then on
\* the upstream body; from the cancel on no frame is enqueued and
\* controller.error is not called, however the pending read ends
C16_CancelQuiet ==
  [][/\ canceled' =>
          /\ upstreamCalls' \in {<<"reader.cancel">>, <<"reader.cancel", "upstreamBody.cancel">>}
          /\ out' = out
          /\ status' # "errored"
     /\ canceled => canceled']_vars
\* a stream cancelled after its first frames, whose pending read was
\* rejected
C16_Witness ==
  /\ canceled
  /\ out # <<>>
  /\ pendingRead = "rejected"
  /\ status = "closed"
  /\ upstreamCalls = <<"reader.cancel", "upstreamBody.cancel">>


(***************************************************************************)
(* The aggregate of the non-streaming branch against the stream that the   *)
(* translator makes of the same upstream body in the same mode.            *)
(***************************************************************************)
\* the frames of the stream for the lines delivered to the aggregation
StreamOf ==
  HandleLines([SseState EXCEPT !.reasoningCompat = normalizeCompatMode(aggCompat)],
              delivered).out
\* the texts of the chunks of frames whose delta has the key, one after another
RECURSIVE Streamed(_, _)
Streamed(frames, key) ==
  IF frames = <<>> THEN <<>>
  ELSE (IF Head(frames).f = "chunk" /\ Head(frames).delta = key
        THEN Head(frames).text.s ELSE <<>>) \o Streamed(Tail(frames), key)
\* the tool calls of the stream in their order
RECURSIVE StreamedToolCalls(_)
StreamedToolCalls(frames) ==
  IF frames = <<>> THEN <<>>
  ELSE (IF Head(frames).delta = "tool_calls" THEN <<Head(frames).tool>> ELSE <<>>)
       \o StreamedToolCalls(Tail(frames))
\* an upstream body of events and blank lines in which response.completed,
\* if any, is the last line
EventsThenCompleted ==
  \A i \in DOMAIN delivered :
    /\ delivered[i].kind \in {"data", "blank"}
    /\ IsCompletion(delivered[i]) => i = Len(delivered)

\* C19 (as claimed): for an upstream body of events ended by
\* response.completed or by the end of the body, and in every mode, the
\* message of the non-streaming response has as content the concatenation
\* of the content deltas the stream carries for the same body (think tags
\* and separators included), as reasoning text (reasoning,
\* reasoning_content, reasoning_summary) the concatenation of the streamed
\* deltas of the same key, and as tool_calls the streamed tool calls in
\* their order.
C19_AggregateEqualsStream ==
  (/\ aggStatus = "responded"
   /\ response.http = 200
   /\ EventsThenCompleted) =>
    /\ response.message.content.s = Streamed(StreamOf, "content")
    /\ \A key \in {"reasoning", "reasoning_content", "reasoning_summary"} :
         response.message[key].s = Streamed(StreamOf, key)
    /\ response.message.tool_calls = StreamedToolCalls(StreamOf)


\* the 401 answers of openaiAuthMiddleware
MiddlewareRefusals ==
  {Resp(401, Str(<<m>>)) :
     m \in {"Missing Authorization header",
            "Invalid Authorization header format. Expected: Bearer <token>",
            "Invalid API key"}}
\* C21 (as claimed): without OPENAI_API_KEY in the environment, a request to
\* a route that carries the middleware is not answered by the middleware,
\* whatever its Authorization header and also when it has none: it reaches
\* the handler
C21_NoKeySkipsAuth ==
  (/\ httpRequest # Null
   /\ Falsy(httpRequest.env.OPENAI_API_KEY)
   /\ httpRequest.req.route \in {"POST /v1/chat/completions", "POST /v1/completions",
                                 "POST /api/chat", "POST /api/show"}) =>
    ~(httpResponse \in MiddlewareRefusals)


(***************************************************************************)
(* The prefixed mounts of the app (src/src/index.ts 57-90) in front of the *)
(* routes of routes/openai.ts (src/unnamed/part_007).  The values set on   *)
(* the context of a request are a function from their keys.                *)
(***************************************************************************)
\* index.ts 57-67: the 404 of the middleware, or the values it sets on the
\* context before next()
withCompat(c, mode) ==
  IF c.env.REASONING_COMPAT[1] = "all" \/ c.env.REASONING_OUTPUT_MODE[1] = "all"
  THEN [key \in {"REASONING_COMPAT_OVERRIDE"} |-> <<mode, mode>>]
  ELSE Resp(404, Undef)

\* index.ts 51-90, part_007 13-25, 135-147, 288-323, 550-556: one request to
\* /v1/models or /v1/chat/completions under the root or under a prefix.  A
\* chat request that passes the middlewares starts the translator or the
\* aggregation in the mode of the route (the upstream answers 200).
FetchCompat ==
  /\ httpRequest = Null
  /\ \E prefix \in {"", "tagged", "r1", "o3", "openai", "hidden", "standard"},
        path \in {"GET /v1/models", "POST /v1/chat/completions"},
        stream \in BOOLEAN,
        authHeader \in {Undef, Str(<<"Bearer ", "k">>)},
        key \in {Undef, Str(<<"k">>)},
        outputMode \in {<<"", "">>, <<"all", "all">>, <<"tagged", "tagged">>, <<"ALL", "all">>},
        compat \in {<<"", "">>, <<"all", "all">>} :
       LET c == [env |-> [OPENAI_API_KEY |-> key, REASONING_OUTPUT_MODE |-> outputMode,
                          REASONING_COMPAT |-> compat],
                 req |-> [Authorization |-> authHeader, route |-> path, prefix |-> prefix,
                          stream |-> stream]]
           mounted == prefix \in {"tagged", "r1", "o3", "standard", "legacy", "current",
                                  "hidden"}
           set == IF prefix = "" THEN << >> ELSE withCompat(c, prefix)
           get(k) == IF k \in DOMAIN set THEN set[k] ELSE <<"", "">>
           override == get("REASONING_OUTPUT_MODE_OVERRIDE")
           reasoningCompatRaw ==
             routeCompat(IF override[1] # "" THEN override ELSE c.env.REASONING_OUTPUT_MODE)
           answer ==
             CASE prefix # "" /\ ~mounted -> Resp(404, Undef)
               [] prefix # "" /\ set = Resp(404, Undef) -> Resp(404, Undef)
               [] path = "GET /v1/models" -> Resp(200, Undef)
               [] openaiAuthMiddleware(c) # Null -> openaiAuthMiddleware(c)
               [] OTHER -> Resp(200, Undef)
           served == path = "POST /v1/chat/completions" /\ answer.status = 200
       IN /\ httpRequest' = c
          /\ httpResponse' = answer
          /\ IF served /\ stream
             THEN /\ reasoningCompat' = normalizeCompatMode(reasoningCompatRaw)
                  /\ status' = "reading"
             ELSE UNCHANGED <<reasoningCompat, status>>
          /\ IF served /\ ~stream
             THEN /\ aggCompat' = reasoningCompatRaw
                  /\ aggStatus' = "reading"
             ELSE UNCHANGED <<aggCompat, aggStatus>>
  /\ UNCHANGED <<upVars, thinkOpen, thinkClosed, sawAnySummary, pendingSummaryParagraph,
                 sentRole, buffer, out, fullText, reasoningSummaryText, reasoningFullText,
                 toolCalls, finalUsage, errorMessage, completedEarly, aggBuffer,
                 sawDataPrefix, response, usageVars, cacheVars, request, returned, applied,
                 canceled, upstreamCalls, pendingRead, fetchSignal, kvVars>>

\* one request to the app with its prefixed mounts
SpecCompat == InitIdle /\ [][FetchCompat]_vars

\* the mode a served chat request is translated with
TranslatedWith ==
  IF httpRequest.req.stream THEN reasoningCompat ELSE aggCompat[2]
\* C22 (as claimed): a request under one of the prefixes tagged, r1, o3,
\* openai and hidden is answered 404 unless the reasoning mode setting is
\* `all`, and is routed when it is; a chat request served under a prefix is
\* translated with the mode of the prefix, and one served under the root
\* with REASONING_OUTPUT_MODE = all with openai
C22_PrefixedRoutes ==
  httpRequest # Null =>
    LET req == httpRequest.req
        allMode == \/ httpRequest.env.REASONING_OUTPUT_MODE[1] = "all"
                   \/ httpRequest.env.REASONING_COMPAT[1] = "all"
        chat == req.route = "POST /v1/chat/completions" /\ httpResponse.status = 200
    IN /\ req.prefix \in {"tagged", "r1", "o3", "openai", "hidden"} =>
            /\ (httpResponse.status = 404) <=> ~allMode
            /\ chat => TranslatedWith = req.prefix
       /\ (req.prefix = "" /\ httpRequest.env.REASONING_OUTPUT_MODE[1] = "all" /\ chat) =>
            TranslatedWith = "openai"


(***************************************************************************)
(* The abort signal of the upstream fetch (upstream.ts 110-150, 650-675).  *)
(* A signal is its aborted flag and its reason, [reason, aborted]; the     *)
(* listeners are those registered on a and b by combineAbortSignals and    *)
(* not yet removed.                                                        *)
(***************************************************************************)
\* upstream.ts 110-150; `is` says which object is returned.  Here the
\* listener of b is not registered
combineAbortSignals_onlyA(a, b) ==
  CASE a = Undef /\ b = Undef ->
         [is |-> "undefined", controller |-> Undef, listeners |-> {}]
    [] b = Undef -> [is |-> "a", controller |-> Undef, listeners |-> {}]
    [] a = Undef -> [is |-> "b", controller |-> Undef, listeners |-> {}]
    [] a.aborted -> [is |-> "controller",
                     controller |-> [reason |-> a.reason, aborted |-> TRUE],
                     listeners |-> {}]
    [] OTHER -> [is |-> "controller", controller |-> [reason |-> Undef, aborted |-> FALSE],
                 listeners |-> {"onAbortA"}]
\* upstream.ts 110-150; `is` says which object is returned.  A signal
\* that is aborted already aborts the controller at once, a first, and the
\* listeners are removed
combineAbortSignals(a, b) ==
  CASE a = Undef /\ b = Undef ->
         [is |-> "undefined", controller |-> Undef, listeners |-> {}]
    [] b = Undef -> [is |-> "a", controller |-> Undef, listeners |-> {}]
    [] a = Undef -> [is |-> "b", controller |-> Undef, listeners |-> {}]
    [] a.aborted -> [is |-> "controller",
                     controller |-> [reason |-> a.reason, aborted |-> TRUE],
                     listeners |-> {}]
    [] b.aborted -> [is |-> "controller",
                     controller |-> [reason |-> b.reason, aborted |-> TRUE],
                     listeners |-> {}]
    [] OTHER -> [is |-> "controller", controller |-> [reason |-> Undef, aborted |-> FALSE],
                 listeners |-> {"onAbortA", "onAbortB"}]

\* upstream.ts 650-675: the signal is composed, the timer set and the fetch
\* started with the signal (a, b, the controller's or none); a fetch whose
\* signal is aborted rejects
StartFetch ==
  /\ fetchSignal = Null
  /\ \E signal \in {Undef, [reason |-> Undef, aborted |-> FALSE],
                    [reason |-> Str(<<"AbortError">>), aborted |-> TRUE],
                    [reason |-> Str(<<"client closed">>), aborted |-> TRUE]},
        timeoutMs \in {Undef, Str(<<"1">>)} \cup {Num(k) : k \in (-1)..MaxTimeoutMs} :
       LET timed == IsNum(timeoutMs) /\ timeoutMs.n > 0
           b == IF timed THEN [reason |-> Undef, aborted |-> FALSE] ELSE Undef
           combined ==
             IF timed THEN combineAbortSignals(signal, b)
             ELSE [is |-> IF signal = Undef THEN "undefined" ELSE "a",
                   controller |-> Undef, listeners |-> {}]
           given == CASE combined.is = "a" -> signal
                      [] combined.is = "b" -> b
                      [] combined.is = "controller" -> combined.controller
                      [] OTHER -> Undef
       IN fetchSignal' =
            [a |-> signal, b |-> b, is |-> combined.is,
             controller |-> combined.controller, listeners |-> combined.listeners,
             signal |-> given, timeoutMs |-> timeoutMs, elapsed |-> 0,
             fetch |-> IF given # Undef /\ given.aborted THEN "rejected" ELSE "pending"]
  /\ UNCHANGED <<upVars, sseVars, aggVars, usageVars, cacheVars, request, returned,
                 httpRequest, httpResponse, applied, canceled, upstreamCalls, pendingRead, kvVars>>

\* the abort event of a (the caller aborts, with a reason or without) or of
\* b (upstream.ts 659-663: the timer runs out): the listener of the signal,
\* if still registered, aborts the controller with the reason of the signal
\* and removes both listeners (upstream.ts 115-137).  The abort of its
\* signal rejects a pending fetch and errors the body of an answered one.
Abort ==
  /\ fetchSignal # Null
  /\ \E f \in
       {[fetchSignal EXCEPT
           !.a = [reason |-> reason, aborted |-> TRUE],
           !.controller = IF "onAbortA" \in fetchSignal.listeners
                          THEN [reason |-> reason, aborted |-> TRUE] ELSE @,
           !.listeners = IF "onAbortA" \in @ THEN {} ELSE @] :
         reason \in IF fetchSignal.a # Undef /\ ~fetchSignal.a.aborted
                    THEN {Str(<<"AbortError">>), Str(<<"client closed">>)} ELSE {}}
       \cup
       {[fetchSignal EXCEPT
           !.elapsed = @ + 1,
           !.b = IF fired THEN [reason |-> Str(<<"TimeoutError">>), aborted |-> TRUE] ELSE @,
           !.controller = IF fired /\ "onAbortB" \in fetchSignal.listeners
                          THEN [reason |-> Str(<<"TimeoutError">>), aborted |-> TRUE]
                          ELSE @,
           !.listeners = IF fired /\ "onAbortB" \in @ THEN {} ELSE @] :
         fired \in IF fetchSignal.b # Undef /\ fetchSignal.elapsed < fetchSignal.timeoutMs.n
                   THEN {fetchSignal.elapsed + 1 = fetchSignal.timeoutMs.n} ELSE {}} :
       \E given \in {CASE f.is = "a" -> f.a
                       [] f.is = "b" -> f.b
                       [] f.is = "controller" -> f.controller
                       [] OTHER -> Undef} :
         fetchSignal' =
           [f EXCEPT !.signal = given,
                     !.fetch = CASE given = Undef \/ ~given.aborted -> @
                                 [] @ = "pending" -> "rejected"
                                 [] @ = "answered" -> "body aborted"
                                 [] OTHER -> @]
  /\ UNCHANGED <<upVars, sseVars, aggVars, usageVars, cacheVars, request, returned,
                 httpRequest, httpResponse, applied, canceled, upstreamCalls, pendingRead, kvVars>>

\* upstream.ts 666-674: the upstream answers the pending fetch; the timer
\* is left running
Answer ==
  /\ fetchSignal # Null
  /\ fetchSignal.fetch = "pending"
  /\ fetchSignal' = [fetchSignal EXCEPT !.fetch = "answered"]
  /\ UNCHANGED <<upVars, sseVars, aggVars, usageVars, cacheVars, request, returned,
                 httpRequest, httpResponse, applied, canceled, upstreamCalls, pendingRead, kvVars>>

\* one upstream fetch with its signal
SpecAbort == InitIdle /\ [][StartFetch \/ Abort \/ Answer]_vars

\* C23: with a timeout and a caller's signal, the signal given to the fetch
\* is the controller's; from the composition on it is aborted exactly when
\* the caller's signal is aborted or the timer has run out, with the reason
\* of a source that is aborted, and the fetch is rejected or its body
\* aborted exactly then
C23_EitherAborts ==
  (/\ fetchSignal # Null
   /\ fetchSignal.a # Undef
   /\ fetchSignal.b # Undef) =>
    /\ fetchSignal.is = "controller"
    /\ fetchSignal.signal = fetchSignal.controller
    /\ fetchSignal.b.aborted <=> fetchSignal.elapsed = fetchSignal.timeoutMs.n
    /\ fetchSignal.signal.aborted <=> (fetchSignal.a.aborted \/ fetchSignal.b.aborted)
    /\ fetchSignal.signal.aborted =>
         \E src \in {fetchSignal.a, fetchSignal.b} :
           src.aborted /\ src.reason = fetchSignal.signal.reason
    /\ (fetchSignal.fetch \in {"rejected", "body aborted"}) <=> fetchSignal.signal.aborted
\* the timer ran out on a live caller's signal, which was aborted afterwards
C23_Witness ==
  /\ fetchSignal # Null
  /\ fetchSignal.a = [reason |-> Str(<<"client closed">>), aborted |-> TRUE]
  /\ fetchSignal.b # Undef
  /\ fetchSignal.b.aborted
  /\ fetchSignal.signal = [reason |-> Str(<<"TimeoutError">>), aborted |-> TRUE]
  /\ fetchSignal.fetch = "rejected"


(***************************************************************************)
(* Properties of the frames of one chat stream (Spec).                     *)
(***************************************************************************)
\* the chunks whose delta carries content, reasoning or a tool call
ContentBearing ==
  {i \in DOMAIN out :
     /\ out[i].f = "chunk"
     /\ out[i].delta \in {"content", "reasoning", "reasoning_content", "reasoning_summary",
                          "tool_calls"}}
\* C24: the stream has at most one role chunk, and every chunk that carries
\* content, reasoning or a tool call comes after it
C24_RoleOnceAndFirst ==
  /\ Cardinality(Positions(RoleChunk)) <= 1
  /\ \A i \in ContentBearing : \E j \in 1..(i - 1) : out[j] = RoleChunk
\* a stream with a reasoning chunk, a tool call and an answer chunk
C24_Witness ==
  /\ Positions(RoleChunk) = {1}
  /\ {out[i].delta : i \in ContentBearing} = {"content", "reasoning", "tool_calls"}


\* the translator state at the start of the stream, in the mode of the stream
Fresh ==
  [out |-> <<>>, sentRole |-> FALSE, reasoningCompat |-> reasoningCompat,
   thinkOpen |-> FALSE, thinkClosed |-> FALSE, sawAnySummary |-> FALSE,
   pendingSummaryParagraph |-> FALSE, brk |-> FALSE, err |-> FALSE]
\* no line follows response.completed or [DONE]
CompletionLast ==
  \A i \in DOMAIN delivered : IsCompletion(delivered[i]) => i = Len(delivered)
\* C25 (as claimed): in a stream that ends with its completion, the data
\* lines whose payload is not a JSON event object (truncated JSON, the JSON
\* value null) are skipped: the output stream is not errored, and its frames
\* are those of the same lines without the malformed ones
C25_MalformedSkipped ==
  CompletionLast =>
    /\ status # "errored"
    /\ out = HandleLines(Fresh, SelectSeq(delivered,
                                          LAMBDA l : l.kind \notin {"bad", "null"})).out


\* C26 (as claimed): in a stream that is not errored and ends with its
\* completion, every response.output_text.done line has its chunk with an
\* empty delta and finish_reason "stop", and no other line has one
C26_TextDoneFinishes ==
  (CompletionLast /\ status # "errored") =>
    Cardinality(Positions(FinishChunk("stop")))
      = Cardinality({i \in DOMAIN delivered : IsEvent(delivered[i], {OutputTextDone})})


\* C27 (as claimed): the read that enqueues the [DONE] frame closes the
\* output stream, and from then on no upstream line is read and no frame is
\* enqueued
C27_StopsAfterDone ==
  [][/\ Positions(DoneFrame)' # {} => status' = "closed"
     /\ Positions(DoneFrame) # {} => (delivered' = delivered /\ out' = out)]_vars


(***************************************************************************)
(* Properties of one non-streaming aggregation (SpecAgg).                  *)
(***************************************************************************)
\* the locals of the branch before the first read
AggFresh ==
  [brk |-> FALSE, fullText |-> Str(<<>>), reasoningSummaryText |-> Str(<<>>),
   reasoningFullText |-> Str(<<>>), toolCalls |-> <<>>, finalUsage |-> NoUsage,
   errorMessage |-> Null, completedEarly |-> FALSE, sawDataPrefix |-> FALSE]
\* the lines up to the first response.completed or [DONE], that line included
RECURSIVE UpToCompletion(_)
UpToCompletion(lines) ==
  IF lines = <<>> THEN <<>>
  ELSE IF IsCompletion(Head(lines)) THEN <<Head(lines)>>
  ELSE <<Head(lines)>> \o UpToCompletion(Tail(lines))
\* C28 (as claimed): the read that delivers a response.completed or a
\* [DONE] line is the last one; the route then builds its response, from
\* the lines up to that line and no later one
C28_AggStopsAtCompletion ==
  [][/\ Signalled' =>
          /\ aggStatus' = "responded"
          /\ response' = Respond(AggHandleLines(AggFresh, UpToCompletion(delivered')),
                                 aggCompat)
     /\ Signalled => delivered' = delivered]_vars


\* C29 (as claimed): in hidden mode the frames of a stream that is not
\* errored and ends with its completion are those of the same lines
\* without the reasoning deltas: a reasoning delta enqueues nothing
C29_HiddenSwallows ==
  (reasoningCompat = "hidden" /\ CompletionLast /\ status # "errored") =>
    out = HandleLines(Fresh, SelectSeq(delivered,
                                       LAMBDA l : ~IsEvent(l, ReasoningKinds))).out


\* the reasoning_summary_part.added lines before line i
PartsBefore(i) == {j \in 1..(i - 1) : IsEvent(delivered[j], {PartAdded})}
\* line i is the first summary delta of a summary part that is not the first
FirstOfLaterPart(i) ==
  /\ IsEvent(delivered[i], SummaryKinds)
  /\ Cardinality(PartsBefore(i)) >= 2
  /\ \E j \in PartsBefore(i) :
       \A k \in (j + 1)..(i - 1) : ~IsEvent(delivered[k], SummaryKinds)
\* the "\n" chunks of the stream
Separators == {i \in DOMAIN out : out[i].f = "chunk" /\ out[i].text = Newline}
\* every summary delta belongs to a part that was announced, and in tagged
\* mode the reasoning comes before the answer
PartsThenAnswer ==
  /\ \A i \in DOMAIN delivered : IsEvent(delivered[i], SummaryKinds) => PartsBefore(i) # {}
  /\ reasoningCompat = "tagged" =>
       \A i, j \in DOMAIN delivered :
         (i < j /\ IsEvent(delivered[i], {TextDelta})) => ~IsEvent(delivered[j], ReasoningKinds)
C31_NonStringItemSkipped ==
  (/\ delivered # <<>>
   /\ \A i \in DOMAIN delivered :
        /\ delivered[i].evt.item.type = "function_call"
        /\ ~StringCall(delivered[i].evt.item)) =>
    \A j \in DOMAIN out : out[j].delta # "tool_calls" /\ out[j].finish # "tool_calls"


(***************************************************************************)
(* Frame of applyReasoningToMessage (SpecReasoning).                       *)
(***************************************************************************)
\* C32 (as claimed): in the hidden, o3, r1 and openai modes the content of
\* the returned message is the content it was given, whatever the reasoning
\* texts, and in the hidden mode the returned message is the given message
C32_ContentOnlyInTagged ==
  (applied # Null /\ applied.compat[2] \in {"hidden", "o3", "r1", "openai"}) =>
    /\ applied.out.content = applied.message.content
    /\ applied.compat[2] = "hidden" => applied.out = applied.message


(***************************************************************************)
(* The usage of a non-streaming response (part_007 199-204, 316), on an    *)
(* upstream whose events carry usage before response.completed as well.    *)
(***************************************************************************)
\* lines with usage at `usage` and at `response.usage`, on deltas and on
\* response.completed
AggUsageLineSet ==
  {DataLine(e) : e \in
     {Evt(TextDelta, TxtA, NoItem, Undef, Undef),
      Evt(TextDelta, TxtA, NoItem, Undef, UsageU1),
      Evt(SummaryTextDelta, TxtR, NoItem,
          UsageObj(Undef, Num(1), Undef, Num(4), Undef, Undef, Undef), Undef),
      Evt(Completed, Undef, NoItem, Undef, Undef),
      Evt(Completed, Undef, NoItem,
          UsageObj(Num(5), Undef, Num(6), Undef, Undef, Undef, Undef), Undef)}}
  \cup {DoneLine}
NextAggUsage ==
  \/ \E n \in 1..2 : AggRead(FALSE, BlankLine, n)
  \/ \E line \in AggUsageLineSet, n \in 1..5 : AggRead(TRUE, line, n)
  \/ AggUpstreamEnd
SpecAggUsage == InitAgg /\ [][NextAggUsage]_vars

\* the usage of the last delivered line that carries one, NoUsage if none does
RECURSIVE LastUsage(_)
LastUsage(lines) ==
  IF lines = <<>> THEN NoUsage
  ELSE LET l == lines[Len(lines)]
           u == IF l.kind = "data" THEN normalizeUsage(RawUsageOf(l.evt)) ELSE NoUsage
       IN IF u # NoUsage THEN u ELSE LastUsage(SubSeq(lines, 1, Len(lines) - 1))
\* C33 (as claimed): the response to an upstream in which nothing follows
\* response.completed or [DONE] reports the usage of response.completed when
\* that event carries one, otherwise the usage of the last event that
\* carries one, and no usage when no event carries any
C33_UsageLastWins ==
  (/\ aggStatus = "responded"
   /\ response.http = 200
   /\ CompletionLast) =>
    response.usage = LastUsage(delivered)


(***************************************************************************)
(* Chunking of the upstream body (Spec).                                   *)
(***************************************************************************)
\* C36 (as claimed): the frames of a closed stream are those that the same
\* upstream lines give when they arrive in one read, wherever the reads
\* have split the body
C36_ChunkingIndependent ==
  status = "closed" => out = HandleLines(Fresh, delivered).out


(***************************************************************************)
(* The cache key and the cache under a run of calls (SpecCache).           *)
(***************************************************************************)
\* C37 (as claimed): a call without client id that follows a call without
\* client id with the same instructions, each with a first user message and
\* the two differing in their input_text or input_image parts, does not
\* return the id minted for the first
C37_KeyDistinguishesFirstMessage ==
  [][(/\ lastCall.made /\ lastCall'.made
      /\ Falsy(lastCall.clientSupplied) /\ Falsy(lastCall'.clientSupplied)
      /\ lastCall.instructions = lastCall'.instructions
      /\ ~lastCall.hit
      /\ canonicalizeFirstUserMessage(lastCall.inputItems) # Null
      /\ canonicalizeFirstUserMessage(lastCall'.inputItems) # Null
      /\ canonicalizeFirstUserMessage(lastCall.inputItems)
           # canonicalizeFirstUserMessage(lastCall'.inputItems)) =>
       lastCall'.ret # lastCall.ret]_vars


\* C38: after every run of ensureSessionId calls, each one atomic, FP_ORDER
\* holds no key twice and holds exactly the keys of FP_TO_UUID, and a call
\* leaves the id of every key that stays in the cache as it was
C38_CacheConsistent ==
  /\ [](/\ \A i, j \in DOMAIN FP_ORDER : FP_ORDER[i] = FP_ORDER[j] => i = j
        /\ {FP_ORDER[i] : i \in DOMAIN FP_ORDER} = DOMAIN FP_TO_UUID)
  /\ [][\A k \in DOMAIN FP_TO_UUID \cap DOMAIN FP_TO_UUID' :
          FP_TO_UUID'[k] = FP_TO_UUID[k]]_vars
\* a full cache that has evicted a key, and a call that found its key in it
\* under the id minted earlier
C38_Witness ==
  /\ Len(FP_ORDER) = MAX_ENTRIES
  /\ Len(insertion) = MAX_ENTRIES
  /\ lastCall.hit
  /\ lastCall.ret = Str(<<"u2">>)
  /\ FP_ORDER[MAX_ENTRIES].instructions # Undef
  /\ FP_ORDER[MAX_ENTRIES].first_user_message = Undef


(***************************************************************************)
(* The two fetches of a startUpstreamRequest call whose first fetch is     *)
(* answered 401 and whose token refresh succeeds (upstream.ts 384-787).    *)
(* A header set is a function from the property names of the `headers`     *)
(* object to their values.                                                 *)
(***************************************************************************)
\* upstream.ts 384-463, 567-663, 666-672 for the first fetch; 699-787 for
\* the retry.  mode is FORWARD_CLIENT_HEADERS_MODE in lower case, list the
\* entries of FORWARD_CLIENT_HEADERS_LIST trimmed and in lower case, client
\* options.forwardedClientHeaders (Undef when not passed), override the
\* object of FORWARD_CLIENT_HEADERS_OVERRIDE.
FetchAndRetry ==
  /\ request = Null
  /\ \E mode \in {"off", "safe", "list", "override"},
        list \in {<<>>, <<"user-agent", "">>, <<"x-trace", "authorization">>},
        names \in SUBSET {"user-agent", "x-trace", "cf-connecting-ip"},
        passed \in BOOLEAN,
        isOllamaRequest \in BOOLEAN,
        accountId \in {Str(<<>>), Str(<<"a1">>)},
        refreshedAccount \in {Undef, Str(<<"a2">>)},
        override \in {<<>>, <<"User-Agent">>, <<"accept", "Authorization">>} :
       LET RESERVED == {"authorization", "content-type", "accept", "openai-beta",
                        "chatgpt-account-id", "session_id"}
           SAFE_DEFAULT == {"user-agent", "accept-language", "sec-ch-ua", "sec-ch-ua-mobile",
                            "sec-ch-ua-platform", "sec-ch-ua-arch", "sec-ch-ua-model",
                            "x-forwarded-for", "x-forwarded-proto", "x-forwarded-host",
                            "cf-connecting-ip"}
           base == [k \in {"Content-Type"} |-> Str(<<"application/json">>)]
           src == [k \in names |-> Str(<<"client ", k>>)]
           \* 433-443
           passList == CASE mode = "safe" -> SAFE_DEFAULT
                         [] mode = "list" -> {list[i] : i \in DOMAIN list} \ {""}
                         [] OTHER -> {}
           \* 447-453
           copied == [k \in (passList \ RESERVED) \cap names |-> src[k]]
           \* 456-461: x-forwarded-for made from cf-connecting-ip
           synthesized ==
             IF "x-forwarded-for" \notin DOMAIN copied /\ "cf-connecting-ip" \in names
             THEN [k \in {"x-forwarded-for"} |-> src["cf-connecting-ip"]]
             ELSE [k \in {} |-> Undef]
           \* 390-392, 445: nothing without client headers, in the off mode
           \* or with an empty pass list
           forwarded == IF ~passed \/ mode = "off" \/ passList = {}
                        THEN base ELSE synthesized @@ copied @@ base
           \* 633-650 and 704-717
           protocol(token, account) ==
             IF isOllamaRequest THEN [k \in {} |-> Undef]
             ELSE [k \in {"Authorization"} |-> Str(<<"Bearer ", token>>)]
                  @@ [k \in {"Accept"} |-> Str(<<"text/event-stream">>)]
                  @@ (IF Falsy(account) THEN [k \in {} |-> Undef]
                      ELSE [k \in {"chatgpt-account-id"} |-> account])
                  @@ [k \in {"OpenAI-Beta"} |-> Str(<<"responses=experimental">>)]
                  @@ [k \in {"session_id"} |-> Str(<<"s1">>)]
           \* 540-558 and 759-776: setCanonical on every name but authorization
           canonical(name) == IF name = "accept" THEN "Accept" ELSE name
           overridden ==
             IF mode # "override" THEN [k \in {} |-> Undef]
             ELSE [k \in {canonical(override[i]) : i \in DOMAIN override} \ {"Authorization"}
                     |-> Str(<<"override">>)]
           post(headers) ==
             [headers |-> headers,
              url |-> IF isOllamaRequest THEN "OLLAMA_API_URL" ELSE "CHATGPT_RESPONSES_URL",
              method |-> "POST", body |-> "requestBody"]
       IN /\ request' = [isOllamaRequest |-> isOllamaRequest, mode |-> mode, list |-> list,
                         names |-> names, passed |-> passed]
          /\ upstreamCalls' =
               <<post(overridden @@ protocol("t1", accountId) @@ forwarded),
                 post(overridden @@ protocol("t2", Or(refreshedAccount, accountId)) @@ base)>>
  /\ UNCHANGED <<upVars, sseVars, aggVars, usageVars, cacheVars, returned, httpRequest,
                 httpResponse, applied, canceled, pendingRead, fetchSignal, kvVars>>
SpecRetry == InitIdle /\ [][FetchAndRetry]_vars

\* C34 (as claimed): the retry has the URL, the method and the body of the
\* first fetch and the same header names, forwarded client headers and
\* session id included, with the same values but for the credentials
\* (Authorization and chatgpt-account-id)
C34_RetryIdentical ==
  upstreamCalls # <<>> =>
    LET first == upstreamCalls[1]
        retry == upstreamCalls[2]
        credentials == {"Authorization", "chatgpt-account-id"}
    IN /\ retry.url = first.url
       /\ retry.method = first.method
       /\ retry.body = first.body
       /\ DOMAIN retry.headers \ credentials = DOMAIN first.headers \ credentials
       /\ \A k \in DOMAIN first.headers \ credentials : retry.headers[k] = first.headers[k]


(***************************************************************************)
(* The upstream input of a chat request (part_007 61-91, part_004 34-155), *)
(* for messages of the system, user and assistant roles with string        *)
(* content.                                                                *)
(***************************************************************************)
\* part_007 75-86: the first system message is spliced out and put in
\* front as a user message; part_004 66-70, 124-153 (with 89-91 of
\* part_007): every message still of the system role is skipped, a message
\* with empty content gives no item, the others give one message item with
\* one text part
ChatInput ==
  /\ applied = Null
  /\ \E n \in 0..MaxMessages :
       \E messages \in [1..n -> {[content |-> Str(c), role |-> r] :
                                   c \in {<<>>, <<"one">>, <<"two">>},
                                   r \in {"system", "user", "assistant"}}] :
         LET system == {i \in 1..n : messages[i].role = "system"}
             sysIdx == IF system = {} THEN -1
                       ELSE CHOOSE i \in system : \A j \in system : i <= j
             folded ==
               IF sysIdx = -1 THEN messages
               ELSE <<[content |-> Or(messages[sysIdx].content, Str(<<>>)), role |-> "user"]>>
                    \o SubSeq(messages, 1, sysIdx - 1) \o SubSeq(messages, sysIdx + 1, n)
             kept == SelectSeq(folded, LAMBDA m : m.role # "system" /\ ~Falsy(m.content))
             inputItems ==
               [i \in DOMAIN kept |->
                  InputItem("message",
                            IF kept[i].role = "assistant" THEN "assistant" ELSE "user",
                            <<[type |-> IF kept[i].role = "assistant"
                                        THEN "output_text" ELSE "input_text",
                               text |-> kept[i].content]>>)]
         IN applied' = [inputItems |-> inputItems, messages |-> messages]
  /\ UNCHANGED <<upVars, sseVars, aggVars, usageVars, cacheVars, request, returned,
                 httpRequest, httpResponse, canceled, upstreamCalls, pendingRead, fetchSignal, kvVars>>
SpecInput == InitIdle /\ [][ChatInput]_vars

\* C35 (as claimed): the content of every system message of the request,
\* when it is not empty, is the text of a part of a user message of the
\* upstream input
C35_SystemMessagesFolded ==
  applied # Null =>
    \A i \in DOMAIN applied.messages :
      (applied.messages[i].role = "system" /\ applied.messages[i].content.s # <<>>) =>
        \E j \in DOMAIN applied.inputItems :
          /\ applied.inputItems[j].role = "user"
          /\ applied.inputItems[j].content[1].text = applied.messages[i].content


(***************************************************************************)
(* The tokens of a worker over time (auth_kv.ts 34-203).  The worker's     *)
(* environment is fixed at deployment: OPENAI_CODEX_AUTH with tokens, a    *)
(* refresh token and a last_refresh (the day, 0 being the day of the first *)
(* call, or Undef when the JSON has none), and the KV binding or none.     *)
(* `request` is that environment, `returned` what the latest call          *)
(* returned and whether it asked the token endpoint.                       *)
(***************************************************************************)
\* auth_kv.ts 66-136: the token request, answered (ok) or refused; tokens
\* and time are put in KV when the binding exists (120-124)
refreshAccessToken(env, kv, day, ok) ==
  IF ~ok THEN [KV |-> kv, tokens |-> Null]
  ELSE [KV |-> IF env.KV
               THEN [auth_tokens |-> Str(<<"refreshed">>), auth_last_refresh |-> Num(day)]
               ELSE kv,
        tokens |-> Str(<<"refreshed">>)]

\* the environments of a worker
AuthEnvs ==
  {[KV |-> b, last_refresh |-> l] : l \in {Undef, Num(0 - 29), Num(0)}, b \in BOOLEAN}
AuthCall(call, accessToken, asked) ==
  [asked |-> asked, call |-> call, accessToken |-> accessToken]

\* auth_kv.ts 138-203: one getRefreshedAuth call, `days` days after the
\* call before it
GetRefreshedAuth ==
  \E env \in (IF request = Null THEN AuthEnvs ELSE {request}), days \in {0, 1, 27, 29},
     ok \in BOOLEAN :
    LET day == now + days
        \* 34-64: the tokens of OPENAI_CODEX_AUTH
        currentAuth == Str(<<"environment">>)
        \* 154-166
        needsRefresh == env.last_refresh # Undef /\ day - env.last_refresh.n > 28
        \* 169-187
        useKV == /\ env.KV /\ ~needsRefresh
                 /\ KV.auth_last_refresh # Undef
                 /\ KV.auth_last_refresh.n > day - 28
                 /\ KV.auth_tokens # Undef
        refreshed == refreshAccessToken(env, KV, day, ok)
    IN /\ day <= MaxNow
       /\ now' = day
       /\ request' = env
       /\ IF useKV
          THEN /\ returned' = AuthCall("getRefreshedAuth", KV.auth_tokens, FALSE)
               /\ KV' = KV
          ELSE IF needsRefresh
          THEN /\ returned' = AuthCall("getRefreshedAuth",
                                       IF refreshed.tokens # Null THEN refreshed.tokens
                                       ELSE currentAuth, TRUE)
               /\ KV' = refreshed.KV
          ELSE /\ returned' = AuthCall("getRefreshedAuth", currentAuth, FALSE)
               /\ KV' = KV
       /\ UNCHANGED <<upVars, sseVars, aggVars, usageVars, cacheVars, httpRequest,
                      httpResponse, applied, canceled, upstreamCalls, pendingRead, fetchSignal>>

\* upstream.ts 693-699: the refreshAccessToken call of a request that was
\* answered 401, `days` days after the call before it
RefreshAfter401 ==
  \E env \in (IF request = Null THEN AuthEnvs ELSE {request}), days \in {0, 1, 27, 29},
     ok \in BOOLEAN :
    LET refreshed == refreshAccessToken(env, KV, now + days, ok)
    IN /\ now + days <= MaxNow
       /\ now' = now + days
       /\ request' = env
       /\ returned' = AuthCall("refreshAccessToken", refreshed.tokens, TRUE)
       /\ KV' = refreshed.KV
       /\ UNCHANGED <<upVars, sseVars, aggVars, usageVars, cacheVars, httpRequest,
                      httpResponse, applied, canceled, upstreamCalls, pendingRead, fetchSignal>>
SpecKV == InitIdle /\ [][GetRefreshedAuth \/ RefreshAfter401]_vars

\* C39 (as claimed): a getRefreshedAuth call made less than 28 days after
\* refreshAccessToken stored tokens in KV returns the stored access token
\* and asks the token endpoint nothing, whatever the last_refresh of
\* OPENAI_CODEX_AUTH
C39_KvTokensPersist ==
  [][(/\ returned'.call = "getRefreshedAuth"
      /\ KV.auth_tokens # Undef
      /\ now' - KV.auth_last_refresh.n < 28) =>
       /\ returned'.accessToken = KV.auth_tokens
       /\ ~returned'.asked]_vars


(***************************************************************************)
(* sseTranslateText (sse.ts 440-583): the stream of the text completions   *)
(* route.  Its reader, buffer, controller and line splitting are those of  *)
(* sseTranslateChat; of the translator state it has none but the frames.   *)
(***************************************************************************)
\* sse.ts 472-556: the line loop; t holds the frames, the `break` of 555
\* (brk) and the TypeError on `null.type` (err).  A text chunk is a chunk
\* whose delta is "text".
RECURSIVE TextHandleLines(_, _)
TextHandleLines(t, lines) ==
  IF lines = <<>> \/ t.brk \/ t.err THEN t
  ELSE LET line == Head(lines)
           TextChunk(text, finish, usage) == Frame("chunk", "text", text, finish, NoTool, usage)
           u == sseUsage(RawUsageOf(line.evt))
           next ==
             CASE line.kind \in {"blank", "bad"} -> t
               \* 480-492: the sentinel gives a finish chunk, and the loop goes on
               [] line.kind = "done" -> Emit(t, TextChunk(Str(<<>>), "stop", NoUsage))
               [] line.kind = "null" -> [t EXCEPT !.err = TRUE]
               [] line.evt.type = TextDelta ->
                    Emit(t, TextChunk(Or(line.evt.delta, Str(<<>>)), "null", NoUsage))
               [] line.evt.type = OutputTextDone -> Emit(t, TextChunk(Str(<<>>), "stop", NoUsage))
               [] line.evt.type = Completed ->
                    [Emit(IF u # NoUsage THEN Emit(t, TextChunk(Str(<<>>), "null", u)) ELSE t,
                          DoneFrame) EXCEPT !.brk = TRUE]
               [] OTHER -> t
       IN TextHandleLines(next, Tail(lines))

\* sse.ts 462-470, 558-564: one read that yields a value, and the line loop
TextRead(more, line, n) ==
  /\ status = "reading"
  /\ UpstreamSends(buffer, more, line, n, MaxLines)
  /\ \E units \in {buffer \o SubSeq(IF more THEN upPending \o Units(line) ELSE upPending, 1, n)} :
       \E t \in {TextHandleLines([out |-> out, brk |-> FALSE, err |-> FALSE], LinesOf(units))} :
         /\ buffer' = Remainder(units)
         /\ out' = t.out
         /\ status' = IF t.err THEN "errored" ELSE "reading"
  /\ UNCHANGED <<reasoningCompat, thinkOpen, thinkClosed, sawAnySummary,
                 pendingSummaryParagraph, sentRole, aggVars, usageVars, cacheVars, callVars,
                 kvVars>>
\* one text completions stream; UpstreamEnd is the finally block of 565-572
SpecText ==
  /\ Init
  /\ [][\/ \E n \in 1..2 : TextRead(FALSE, BlankLine, n)
        \/ \E line \in LineSet, n \in 1..5 : TextRead(TRUE, line, n)
        \/ UpstreamEnd]_vars

\* C40 (as claimed): a closed text completions stream whose upstream ended
\* with response.completed or with [DONE] holds exactly one `data: [DONE]`
\* frame, and that frame is its last one
C40_TextDoneLast ==
  (status = "closed" /\ Signalled /\ CompletionLast) =>
    /\ Cardinality(Positions(DoneFrame)) = 1
    /\ out[Len(out)] = DoneFrame

====
